---- MODULE Spec2Model ----
(***************************************************************************)
(* Model of the claudish translating proxy.                                *)
(*                                                                         *)
(*  - the streaming state machine that turns a backend delta stream into   *)
(*    the client's block-oriented event stream (chunk loop, ping timer,    *)
(*    client disconnect);                                                  *)
(*  - the conversation cache behind the cache-token split, with its TTL    *)
(*    and its periodic sweep;                                              *)
(*  - the provider registry, which resolves a model id to a provider;      *)
(*  - the local-provider handler: health gate, payload, upstream request   *)
(*    and the mapping of backend errors;                                   *)
(*  - concurrent requests on one handler, with its adapter and its token   *)
(*    file;                                                                *)
(*  - the usage records of message_start and message_delta of concurrent   *)
(*    requests on the cache.                                               *)
(*                                                                         *)
(* Strings that are assembled from fragments (text, tool arguments) are    *)
(* sequences of characters, so that concatenation is \o and an emitted     *)
(* stream can be compared with what the backend sent.                      *)
(***************************************************************************)
EXTENDS Integers, Sequences, FiniteSets, TLC

VARIABLES
    \* ---- one request's stream (StreamState and the response writer)
    pc,                 \* "init" | "streaming" | "ended": position of the chunk loop
    policy,             \* CLAUDISH_REASONING_POLICY of this run
    events,             \* the events written to the response, in order
    isClosed,           \* stream-level closed flag
    disconnected,       \* the client has gone away
    pingActive,         \* the 15 s interval timer is armed
    next_block_index,
    text_block,         \* [open, index]
    thinking_block,     \* [open, index]
    tool_blocks,        \* slot -> [block_index, arg_chars, started, closed]
    stop_reason,        \* finalized on the terminal delta ("" before)
    nchunks,            \* chunks consumed while the stream was open
    npings,             \* timer ticks so far
    termBy,             \* what ended the stream: a finish_reason, "[DONE]", or ""
    lateTerm,           \* a finish chunk or [DONE] arrived after the stream ended
    fed,                \* the chunks consumed while the stream was open, in order
    warned,             \* the log: slots whose arguments failed the JSON check
    \* ---- the process-wide conversation cache
    conversationState,  \* key -> [cacheableTokens, lastCacheTimestamp, messageCount]
    now,                \* the clock, in minutes
    nreq,               \* cache lookups so far
    lastOp,             \* the cache operation that produced this state
    lastReq,            \* what the last lookup was given and what it returned
    seen,               \* per key: the most recent lookup (time, tokens)
    swept,              \* the cache as the last sweep found it
    \* ---- the provider registry
    modelId,            \* the model id being resolved, a sequence of characters
    CLAUDISH_BASE_URL,  \* process.env.CLAUDISH_BASE_URL: [set, value]
    route,              \* what the registry functions returned for modelId
    \* ---- one LocalProviderHandler
    provider,           \* this.provider
    modelName,          \* this.modelName
    apiKeys,            \* the API-key environment: variable name -> value ("" unset)
    healthChecked,
    isHealthy,
    contextWindow,
    hpc,                \* "idle" | "awaiting": handle is at its upstream fetch
    nhandled,           \* requests handled so far
    lastHandle,         \* the last request: probes and upstream requests it
                        \* issued, and the reply the client got
    \* ---- concurrent requests on that handler
    task,               \* request -> where its handle call is
    adapter,            \* state of the adapter of this.adapterManager
    sessionInputTokens,
    sessionOutputTokens,
    tokenFile,          \* contents of claudish-tokens-<port>.json
    reports,            \* the usage reports so far, in order
    learned,            \* an /api/show probe has returned a context length
    lastStep,           \* the step that produced this state
    \* ---- the usage records of concurrent requests
    call                \* request -> key, tokens, usage of its two events

streamVars == <<pc, policy, events, isClosed, disconnected, pingActive,
                next_block_index, text_block, thinking_block, tool_blocks,
                stop_reason, nchunks, npings, termBy, lateTerm, fed, warned>>
cacheVars == <<conversationState, now, nreq, lastOp, lastReq, seen, swept>>
registryVars == <<modelId, CLAUDISH_BASE_URL, route>>
handlerVars == <<provider, modelName, apiKeys, healthChecked, isHealthy,
                 contextWindow, hpc, nhandled, lastHandle>>
sessionVars == <<task, adapter, sessionInputTokens, sessionOutputTokens,
                 tokenFile, reports, learned, lastStep>>
usageVars == <<call>>
vars == <<streamVars, cacheVars, registryVars, handlerVars, sessionVars,
          usageVars>>

----------------------------------------------------------------------------
(* Bounds of the model *)

MaxChunks == 3
MaxPings == 1
MaxTime == 11
MaxRequests == 3
MaxHandled == 2
MaxTasks == 2
MaxReports == 2
MaxDeltas == 1
MaxCalls == 2

----------------------------------------------------------------------------
(* Inputs *)

Slots == {0, 1}
Policies == {"as_text", "as_thinking", "suppress"}
NoText == <<>>

ToolEntry(slot, args) == [slot |-> slot, args |-> args]

MkChunk(content, reasoning, tool_calls, finish) ==
    [content |-> content, reasoning |-> reasoning,
     tool_calls |-> tool_calls, finish |-> finish]

\* finish_reason values a backend may send; "" is a chunk without one.
FinishReasons ==
    {"stop", "length", "tool_calls", "function_call", "content_filter", "eos"}

ContentChunks ==
    { MkChunk(<<"t">>, NoText, <<>>, ""),
      MkChunk(NoText, <<"r">>, <<>>, ""),
      MkChunk(NoText, NoText, <<ToolEntry(0, <<"{">>)>>, ""),
      MkChunk(NoText, NoText, <<ToolEntry(0, <<"}">>)>>, ""),
      MkChunk(NoText, NoText, <<ToolEntry(1, NoText)>>, ""),
      MkChunk(NoText, NoText, <<ToolEntry(1, <<"{">>)>>, ""),
      MkChunk(<<"t">>, <<"r">>,
              <<ToolEntry(0, <<"{">>), ToolEntry(1, <<"}">>)>>, "") }

FinishChunks ==
    { MkChunk(NoText, NoText, <<>>, f) : f \in FinishReasons }
    \cup { MkChunk(<<"t">>, NoText, <<>>, "stop"),
           MkChunk(NoText, NoText, <<ToolEntry(0, <<"}">>)>>, "tool_calls") }

Chunks == ContentChunks \cup FinishChunks

----------------------------------------------------------------------------
(* Events *)

Ev(type, index, kind, payload) ==
    [type |-> type, index |-> index, kind |-> kind, payload |-> payload]

MessageStart == Ev("message_start", -1, "", <<>>)
BlockStart(i, kind) == Ev("content_block_start", i, kind, <<>>)
BlockDelta(i, kind, frag) == Ev("content_block_delta", i, kind, frag)
BlockStop(i) == Ev("content_block_stop", i, "", <<>>)
MessageDelta(reason) == Ev("message_delta", -1, reason, <<>>)
MessageStop == Ev("message_stop", -1, "", <<>>)
Ping == Ev("ping", -1, "", <<>>)

StopReasons == {"end_turn", "max_tokens", "tool_use", "stop_sequence"}

----------------------------------------------------------------------------
(* The stream state as one value, so that a handler is a function of it *)

Cur ==
    [events |-> events, isClosed |-> isClosed, pingActive |-> pingActive,
     next_block_index |-> next_block_index, text_block |-> text_block,
     thinking_block |-> thinking_block, tool_blocks |-> tool_blocks,
     stop_reason |-> stop_reason, warned |-> warned]

Assign(st) ==
    /\ events' = st.events
    /\ isClosed' = st.isClosed
    /\ pingActive' = st.pingActive
    /\ next_block_index' = st.next_block_index
    /\ text_block' = st.text_block
    /\ thinking_block' = st.thinking_block
    /\ tool_blocks' = st.tool_blocks
    /\ stop_reason' = st.stop_reason
    /\ warned' = st.warned

NoBlock == [open |-> FALSE, index |-> -1]

sendSSE(st, ev) == [st EXCEPT !.events = Append(@, ev)]

NoTool == [block_index |-> -1, arg_chars |-> <<>>, started |-> FALSE, closed |-> FALSE]

----------------------------------------------------------------------------
(* Stop-reason mapping *)

mapStopReason(finishReason) ==
    CASE finishReason = "stop" -> "end_turn"
      [] finishReason = "length" -> "max_tokens"
      [] finishReason = "tool_calls" -> "tool_use"
      [] finishReason = "content_filter" -> "stop_sequence"
      [] OTHER -> "end_turn"

----------------------------------------------------------------------------
(* Block bookkeeping *)

\* Close the open text block: content_block_stop, mark not open.
closeTextBlock(st) ==
    IF st.text_block.open
    THEN [sendSSE(st, BlockStop(st.text_block.index))
            EXCEPT !.text_block.open = FALSE]
    ELSE st

\* Close the thinking block before a text or tool block is opened.
closeThinkingBlock(st) ==
    IF st.thinking_block.open
    THEN [sendSSE(st, BlockStop(st.thinking_block.index))
            EXCEPT !.thinking_block.open = FALSE]
    ELSE st

\* Start text block: textBlockIndex = currentBlockIndex++, then
\* content_block_start on that index.
startTextBlock(st) ==
    LET idx == st.next_block_index
    IN  [sendSSE(st, BlockStart(idx, "text"))
            EXCEPT !.text_block = [open |-> TRUE, index |-> idx],
                   !.next_block_index = idx + 1]

\* Variant: the thinking block is left open when a text block is allocated.
openTextBlock_keepThinking(st) == startTextBlock(st)

\* Text block allocation; a thinking block is closed before it.
openTextBlock(st) == startTextBlock(closeThinkingBlock(st))

openThinkingBlock(st) ==
    LET idx == st.next_block_index
    IN  [sendSSE(st, BlockStart(idx, "thinking"))
            EXCEPT !.thinking_block = [open |-> TRUE, index |-> idx],
                   !.next_block_index = idx + 1]

\* Variant: the allocated index is not consumed.
startToolBlock_noIncrement(st, slot) ==
    LET idx == st.next_block_index
    IN  [sendSSE(st, BlockStart(idx, "tool_use"))
            EXCEPT !.tool_blocks[slot] =
                       [block_index |-> idx, arg_chars |-> <<>>,
                        started |-> TRUE, closed |-> FALSE]]

\* Start tool block: toolBlockIndex = currentBlockIndex++, recorded for the
\* slot, then content_block_start on that index.
startToolBlock(st, slot) ==
    LET idx == st.next_block_index
    IN  [sendSSE(st, BlockStart(idx, "tool_use"))
            EXCEPT !.tool_blocks[slot] =
                       [block_index |-> idx, arg_chars |-> <<>>,
                        started |-> TRUE, closed |-> FALSE],
                   !.next_block_index = idx + 1]

\* Tool block allocation for an unseen slot: the open text block (and a
\* thinking block) is closed first.
openToolBlock(st, slot) ==
    startToolBlock(closeThinkingBlock(closeTextBlock(st)), slot)

\* Variant: the delta is sent with a hardcoded index 0.
appendToolArgs_index0(st, slot, fragment) ==
    [sendSSE(st, BlockDelta(0, "input_json_delta", fragment))
        EXCEPT !.tool_blocks[slot].arg_chars = @ \o fragment]

\* An arguments fragment: appended to arg_chars and streamed as
\* input_json_delta on the slot's block.
appendToolArgs(st, slot, fragment) ==
    [sendSSE(st, BlockDelta(st.tool_blocks[slot].block_index,
                            "input_json_delta", fragment))
        EXCEPT !.tool_blocks[slot].arg_chars = @ \o fragment]

\* JSON.parse succeeds.  The arguments of the model are written with the
\* characters { and } only, and {} is the one JSON text over them.
JSONparses(chars) == chars = <<"{", "}">>

\* Validate JSON before closing: nonempty arguments that do not parse are
\* logged, nothing else.
validateToolArgs(st, slot) ==
    IF st.tool_blocks[slot].arg_chars # <<>>
       /\ ~JSONparses(st.tool_blocks[slot].arg_chars)
    THEN [st EXCEPT !.warned = @ \cup {slot}]
    ELSE st

\* Variant: a block whose arguments do not parse is left open.
closeToolBlock_skipInvalid(st, slot) ==
    IF st.tool_blocks[slot].started /\ ~st.tool_blocks[slot].closed
    THEN IF validateToolArgs(st, slot).warned # st.warned
         THEN validateToolArgs(st, slot)
         ELSE [sendSSE(st, BlockStop(st.tool_blocks[slot].block_index))
                 EXCEPT !.tool_blocks[slot].closed = TRUE]
    ELSE st

\* Only close a tool block that was started and is not already closed; the
\* arguments are validated first, and the block is closed whatever the result.
closeToolBlock(st, slot) ==
    IF st.tool_blocks[slot].started /\ ~st.tool_blocks[slot].closed
    THEN [sendSSE(validateToolArgs(st, slot),
                  BlockStop(st.tool_blocks[slot].block_index))
            EXCEPT !.tool_blocks[slot].closed = TRUE]
    ELSE st

----------------------------------------------------------------------------
(* Per-chunk handling *)

\* Variant: delta.reasoning is never taken as text.
textOf_contentOnly(c) == c.content

\* text = delta.content ?? ""; if empty, delta.reasoning counts as text under
\* the as_text policy.
textOf(c) ==
    IF c.content # NoText THEN c.content
    ELSE IF policy = "as_text" THEN c.reasoning
    ELSE NoText

handleText(st, text) ==
    IF text = NoText THEN st
    ELSE LET s1 == IF st.text_block.open THEN st ELSE openTextBlock(st)
         IN  sendSSE(s1, BlockDelta(s1.text_block.index, "text_delta", text))

\* as_thinking: a reasoning fragment (content empty) goes to a thinking block.
handleReasoning(st, c) ==
    IF c.content = NoText /\ c.reasoning # NoText /\ policy = "as_thinking"
    THEN LET s1 == IF st.thinking_block.open THEN st ELSE openThinkingBlock(st)
         IN  sendSSE(s1, BlockDelta(s1.thinking_block.index,
                                    "thinking_delta", c.reasoning))
    ELSE st

handleToolCall(st, entry) ==
    LET s1 == IF st.tool_blocks[entry.slot].started THEN st
              ELSE openToolBlock(st, entry.slot)
    IN  IF entry.args = NoText THEN s1
        ELSE appendToolArgs(s1, entry.slot, entry.args)

RECURSIVE handleToolCalls(_, _)
handleToolCalls(st, calls) ==
    IF calls = <<>> THEN st
    ELSE handleToolCalls(handleToolCall(st, Head(calls)), Tail(calls))

\* The tool-call map iterates in insertion order, which is the order of the
\* block indices.
SlotOfBlock(st, i) ==
    {s \in Slots : st.tool_blocks[s].started /\ st.tool_blocks[s].block_index = i}

RECURSIVE closeToolBlocksFrom(_, _)
closeToolBlocksFrom(st, i) ==
    IF i >= st.next_block_index THEN st
    ELSE IF SlotOfBlock(st, i) = {} THEN closeToolBlocksFrom(st, i + 1)
    ELSE closeToolBlocksFrom(
             closeToolBlock(st, CHOOSE s \in SlotOfBlock(st, i) : TRUE), i + 1)

\* Variant: termination leaves the ping timer armed.
terminate_keepsPing(st, finish) ==
    LET s1 == closeToolBlocksFrom(st, 0)
        s2 == closeTextBlock(s1)
        reason == mapStopReason(finish)
        s3 == sendSSE(sendSSE(s2, MessageDelta(reason)), MessageStop)
    IN  [s3 EXCEPT !.stop_reason = reason,
                   !.isClosed = TRUE]

\* Termination: tool blocks, then the text block, message_delta, message_stop;
\* the ping task is stopped and the response closed.
terminate(st, finish) ==
    LET s1 == closeToolBlocksFrom(st, 0)
        s2 == closeTextBlock(s1)
        reason == mapStopReason(finish)
        s3 == sendSSE(sendSSE(s2, MessageDelta(reason)), MessageStop)
    IN  [s3 EXCEPT !.stop_reason = reason,
                   !.pingActive = FALSE,
                   !.isClosed = TRUE]

\* One backend chunk: text, tool calls, then termination if it carries a
\* finish_reason.  Nothing is done once the stream is closed.
processChunk(st, c) ==
    IF st.isClosed THEN st
    ELSE LET s1 == handleReasoning(handleText(st, textOf(c)), c)
             s2 == handleToolCalls(s1, c.tool_calls)
         IN  IF c.finish # "" THEN terminate(s2, c.finish) ELSE s2

\* Variant: [DONE] always runs the termination.
processDone_unguarded(st) == terminate(st, "")

\* The sentinel data: [DONE]; ignored when finish already ended the stream.
processDone(st) ==
    IF st.isClosed THEN st ELSE terminate(st, "")

ErrorEvent == Ev("error", -1, "api_error", <<>>)

\* Variant: the error event is not followed by message_stop.
streamError_noStop(st) ==
    IF st.isClosed THEN st
    ELSE [sendSSE(st, ErrorEvent) EXCEPT !.pingActive = FALSE, !.isClosed = TRUE]

\* An error after message_start: one error event, message_stop, and the
\* response is closed.  Nothing is written once the stream is closed.
streamError(st) ==
    IF st.isClosed THEN st
    ELSE [sendSSE(sendSSE(st, ErrorEvent), MessageStop)
            EXCEPT !.pingActive = FALSE, !.isClosed = TRUE]

\* Variant: the callback writes without looking at the closed flag.
pingTick_unguarded(st) == sendSSE(st, Ping)

\* The interval callback.
pingTick(st) ==
    IF ~st.isClosed THEN sendSSE(st, Ping) ELSE st

----------------------------------------------------------------------------
(* Actions of one request's stream *)

\* First backend bytes: message_start, and the ping timer is armed.
Start ==
    /\ pc = "init"
    /\ pc' = "streaming"
    /\ events' = Append(events, MessageStart)
    /\ pingActive' = TRUE
    /\ UNCHANGED <<policy, isClosed, disconnected, next_block_index, text_block,
                   thinking_block, tool_blocks, stop_reason, nchunks, npings,
                   termBy, lateTerm, fed, warned>>
    /\ UNCHANGED <<cacheVars, registryVars, handlerVars, sessionVars, usageVars>>

Chunk(c) ==
    /\ pc = "streaming"
    /\ nchunks < MaxChunks
    /\ Assign(processChunk(Cur, c))
    /\ nchunks' = IF isClosed THEN nchunks ELSE nchunks + 1
    /\ termBy' = IF ~isClosed /\ c.finish # "" THEN c.finish ELSE termBy
    /\ lateTerm' = (lateTerm \/ (termBy # "" /\ c.finish # ""))
    /\ fed' = IF isClosed THEN fed ELSE Append(fed, c)
    /\ UNCHANGED <<pc, policy, disconnected, npings>>
    /\ UNCHANGED <<cacheVars, registryVars, handlerVars, sessionVars, usageVars>>

Done ==
    /\ pc = "streaming"
    /\ Assign(processDone(Cur))
    /\ termBy' = IF ~isClosed THEN "[DONE]" ELSE termBy
    /\ lateTerm' = (lateTerm \/ termBy # "")
    /\ UNCHANGED <<pc, policy, disconnected, nchunks, npings, fed>>
    /\ UNCHANGED <<cacheVars, registryVars, handlerVars, sessionVars, usageVars>>

\* The backend body ends (or the aborted read fails): the loop is left and
\* the finally block clears the timer and closes the controller if needed.
EndOfStream ==
    /\ pc = "streaming"
    /\ pc' = "ended"
    /\ pingActive' = FALSE
    /\ isClosed' = TRUE
    /\ UNCHANGED <<policy, events, disconnected, next_block_index, text_block,
                   thinking_block, tool_blocks, stop_reason, nchunks, npings,
                   termBy, lateTerm, fed, warned>>
    /\ UNCHANGED <<cacheVars, registryVars, handlerVars, sessionVars, usageVars>>

\* The client goes away mid-stream: the stream is marked closed.
Disconnect ==
    /\ pc = "streaming"
    /\ ~isClosed
    /\ isClosed' = TRUE
    /\ disconnected' = TRUE
    /\ UNCHANGED <<pc, policy, events, pingActive, next_block_index, text_block,
                   thinking_block, tool_blocks, stop_reason, nchunks, npings,
                   termBy, lateTerm, fed, warned>>
    /\ UNCHANGED <<cacheVars, registryVars, handlerVars, sessionVars, usageVars>>

PingTick ==
    /\ pingActive
    /\ npings < MaxPings
    /\ Assign(pingTick(Cur))
    /\ npings' = npings + 1
    /\ UNCHANGED <<pc, policy, disconnected, nchunks, termBy, lateTerm, fed>>
    /\ UNCHANGED <<cacheVars, registryVars, handlerVars, sessionVars, usageVars>>

\* Reading or parsing the backend stream fails.
StreamError ==
    /\ pc = "streaming"
    /\ Assign(streamError(Cur))
    /\ UNCHANGED <<pc, policy, disconnected, nchunks, npings, termBy, lateTerm, fed>>
    /\ UNCHANGED <<cacheVars, registryVars, handlerVars, sessionVars, usageVars>>

StreamStutter == UNCHANGED streamVars

----------------------------------------------------------------------------
(* The conversation cache *)

Keys == {"k1", "k2"}
TokenCounts == {2, 3}

\* Minutes.
CACHE_TTL == 5
MAX_AGE == 10

NoState ==
    [present |-> FALSE, cacheableTokens |-> 0, lastCacheTimestamp |-> 0,
     messageCount |-> 0]

\* seen[key]: the last request made with the key.  run: that request got the
\* create split, or repeated the cacheable content of a request in a run.
NoSeen == [has |-> FALSE, time |-> 0, tokens |-> 0, run |-> FALSE]

\* Cacheable content changed: the entry is deleted from the map.
invalidateIfChanged(cs, key, cacheableTokens) ==
    IF cs[key].present /\ cs[key].cacheableTokens # cacheableTokens
    THEN [cs EXCEPT ![key] = NoState]
    ELSE cs

\* Variant: a read does not refresh lastCacheTimestamp.
getCacheMetrics_noRefresh(cs, key, cacheableTokens, t) ==
    LET state == cs[key]
        cs1 == invalidateIfChanged(cs, key, cacheableTokens)
    IN  IF ~state.present \/ (t - state.lastCacheTimestamp > CACHE_TTL)
        THEN [cache |-> [cs1 EXCEPT ![key] =
                            [present |-> TRUE,
                             cacheableTokens |-> cacheableTokens,
                             lastCacheTimestamp |-> t,
                             messageCount |-> 1]],
              cache_creation_input_tokens |-> cacheableTokens,
              cache_read_input_tokens |-> 0,
              ephemeral_5m_input_tokens |-> cacheableTokens]
        ELSE [cache |-> IF cs1[key].present
                        THEN [cs1 EXCEPT ![key].messageCount = @ + 1]
                        ELSE cs1,
              cache_creation_input_tokens |-> 0,
              cache_read_input_tokens |-> cacheableTokens,
              ephemeral_5m_input_tokens |-> -1]

\* Variant: the read branch returns the cache_creation object too.
getCacheMetrics_ephemeralOnRead(cs, key, cacheableTokens, t) ==
    LET state == cs[key]
        cs1 == invalidateIfChanged(cs, key, cacheableTokens)
    IN  IF ~state.present \/ (t - state.lastCacheTimestamp > CACHE_TTL)
        THEN [cache |-> [cs1 EXCEPT ![key] =
                            [present |-> TRUE,
                             cacheableTokens |-> cacheableTokens,
                             lastCacheTimestamp |-> t,
                             messageCount |-> 1]],
              cache_creation_input_tokens |-> cacheableTokens,
              cache_read_input_tokens |-> 0,
              ephemeral_5m_input_tokens |-> cacheableTokens]
        ELSE [cache |-> IF cs1[key].present
                        THEN [cs1 EXCEPT ![key].messageCount = @ + 1,
                                         ![key].lastCacheTimestamp = t]
                        ELSE cs1,
              cache_creation_input_tokens |-> 0,
              cache_read_input_tokens |-> cacheableTokens,
              ephemeral_5m_input_tokens |-> cacheableTokens]

\* The cache-token split of one request, and the cache after it.  state is
\* the entry looked up on entry, before the changed-content check deletes it
\* from the map; the branch is chosen on that entry, and the read branch
\* updates that object, which is in the map only if it was not deleted.
\* ephemeral is -1 when the cache_creation object is not part of the result.
getCacheMetrics(cs, key, cacheableTokens, t) ==
    LET state == cs[key]
        cs1 == invalidateIfChanged(cs, key, cacheableTokens)
    IN  IF ~state.present \/ (t - state.lastCacheTimestamp > CACHE_TTL)
        THEN [cache |-> [cs1 EXCEPT ![key] =
                            [present |-> TRUE,
                             cacheableTokens |-> cacheableTokens,
                             lastCacheTimestamp |-> t,
                             messageCount |-> 1]],
              cache_creation_input_tokens |-> cacheableTokens,
              cache_read_input_tokens |-> 0,
              ephemeral_5m_input_tokens |-> cacheableTokens]
        ELSE [cache |-> IF cs1[key].present
                        THEN [cs1 EXCEPT ![key].messageCount = @ + 1,
                                         ![key].lastCacheTimestamp = t]
                        ELSE cs1,
              cache_creation_input_tokens |-> 0,
              cache_read_input_tokens |-> cacheableTokens,
              ephemeral_5m_input_tokens |-> -1]

\* Variant: the cleanup deletes every entry.
cleanup_all(cs, t) == [k \in Keys |-> NoState]

\* Variant: the cleanup uses the TTL as its age limit.
cleanup_ttl(cs, t) ==
    [k \in Keys |->
        IF cs[k].present /\ (t - cs[k].lastCacheTimestamp > CACHE_TTL)
        THEN NoState ELSE cs[k]]

\* The periodic cleanup: entries older than MAX_AGE are deleted.
cleanup(cs, t) ==
    [k \in Keys |->
        IF cs[k].present /\ (t - cs[k].lastCacheTimestamp > MAX_AGE)
        THEN NoState ELSE cs[k]]

\* lastReq and swept describe the operation that led to the current state
\* only; any other operation resets them.
NoReq ==
    [key |-> "k1", tokens |-> 0, time |-> 0, prev |-> NoSeen,
     cache_creation_input_tokens |-> 0, cache_read_input_tokens |-> 0,
     ephemeral_5m_input_tokens |-> -1]

NoSweep == [k \in Keys |-> NoState]

\* One call of getCacheMetrics at the current time.
CacheLookup(key, cacheableTokens) ==
    /\ nreq < MaxRequests
    /\ LET r == getCacheMetrics(conversationState, key, cacheableTokens, now)
       IN  /\ conversationState' = r.cache
           /\ lastReq' = [key |-> key, tokens |-> cacheableTokens, time |-> now,
                          prev |-> seen[key],
                          cache_creation_input_tokens |-> r.cache_creation_input_tokens,
                          cache_read_input_tokens |-> r.cache_read_input_tokens,
                          ephemeral_5m_input_tokens |-> r.ephemeral_5m_input_tokens]
           /\ seen' = [seen EXCEPT ![key] =
                          [has |-> TRUE, time |-> now, tokens |-> cacheableTokens,
                           run |-> \/ r.ephemeral_5m_input_tokens # -1
                                   \/ /\ seen[key].run
                                      /\ seen[key].tokens = cacheableTokens]]
    /\ nreq' = nreq + 1
    /\ lastOp' = "request"
    /\ swept' = NoSweep
    /\ UNCHANGED now

CacheRequest(key, cacheableTokens) ==
    /\ CacheLookup(key, cacheableTokens)
    /\ StreamStutter
    /\ UNCHANGED <<registryVars, handlerVars, sessionVars, usageVars>>

Sweep ==
    /\ conversationState' = cleanup(conversationState, now)
    /\ swept' = conversationState
    /\ lastOp' = "sweep"
    /\ lastReq' = NoReq
    /\ UNCHANGED <<now, nreq, seen>>
    /\ StreamStutter
    /\ UNCHANGED <<registryVars, handlerVars, sessionVars, usageVars>>

Tick ==
    /\ now < MaxTime
    /\ now' = now + 1
    /\ lastOp' = "tick"
    /\ lastReq' = NoReq
    /\ swept' = NoSweep
    /\ UNCHANGED <<conversationState, nreq, seen>>
    /\ StreamStutter
    /\ UNCHANGED <<registryVars, handlerVars, sessionVars, usageVars>>

CacheIdle ==
    /\ conversationState = [k \in Keys |-> NoState]
    /\ now = 0
    /\ nreq = 0
    /\ lastOp = "none"
    /\ lastReq = NoReq
    /\ seen = [k \in Keys |-> NoSeen]
    /\ swept = NoSweep

StreamIdle ==
    /\ pc = "init"
    /\ events = <<>>
    /\ isClosed = FALSE
    /\ disconnected = FALSE
    /\ pingActive = FALSE
    /\ next_block_index = 0
    /\ text_block = NoBlock
    /\ thinking_block = NoBlock
    /\ tool_blocks = [s \in Slots |-> NoTool]
    /\ stop_reason = ""
    /\ nchunks = 0
    /\ npings = 0
    /\ termBy = ""
    /\ lateTerm = FALSE
    /\ fed = <<>>
    /\ warned = {}

----------------------------------------------------------------------------
(* The provider registry *)

\* String functions on sequences of characters.
startsWith(s, p) == Len(p) <= Len(s) /\ SubSeq(s, 1, Len(p)) = p
endsWith(s, p) == Len(p) <= Len(s) /\ SubSeq(s, Len(s) - Len(p) + 1, Len(s)) = p
slice(s, n) == SubSeq(s, n + 1, Len(s))
includes(s, p) == \E i \in 0..(Len(s) - Len(p)) : SubSeq(s, i + 1, i + Len(p)) = p

\* Position of the first "/" of s, or Len(s) + 1.
firstSlash(s) ==
    IF \E i \in 1..Len(s) : s[i] = "/"
    THEN CHOOSE i \in 1..Len(s) : s[i] = "/" /\ \A j \in 1..(i - 1) : s[j] # "/"
    ELSE Len(s) + 1

RECURSIVE splitSlash(_)
\* s.split("/")
splitSlash(s) ==
    IF firstSlash(s) > Len(s) THEN <<s>>
    ELSE <<SubSeq(s, 1, firstSlash(s) - 1)>> \o splitSlash(slice(s, firstSlash(s)))

RECURSIVE joinSlash(_)
\* parts.join("/")
joinSlash(parts) ==
    IF parts = <<>> THEN <<>>
    ELSE IF Len(parts) = 1 THEN parts[1]
    ELSE parts[1] \o <<"/">> \o joinSlash(Tail(parts))

NonEmpty(seg) == seg # <<>>

\* Built-in provider configurations, with the default base URLs.
getProviders ==
    <<[name |-> "ollama",
      baseUrl |->
          <<"h", "t", "t", "p", ":", "/", "/", "l", "o", "c", "a", "l", "h", "o", "s", "t", ":", "1", "1", "4", "3", "4">>,
      apiPath |-> "/v1/chat/completions",
      envVar |-> "OLLAMA_BASE_URL",
      apiKeyEnvVar |-> "OLLAMA_API_KEY",
      prefixes |-> <<<<"o", "l", "l", "a", "m", "a", "/">>, <<"o", "l", "l", "a", "m", "a", ":">>>>,
      capabilities |-> [supportsTools |-> TRUE, supportsVision |-> FALSE,
                        supportsStreaming |-> TRUE, supportsJsonMode |-> TRUE]],
     [name |-> "lmstudio",
      baseUrl |->
          <<"h", "t", "t", "p", ":", "/", "/", "l", "o", "c", "a", "l", "h", "o", "s", "t", ":", "1", "2", "3", "4">>,
      apiPath |-> "/v1/chat/completions",
      envVar |-> "LMSTUDIO_BASE_URL",
      apiKeyEnvVar |-> "LMSTUDIO_API_KEY",
      prefixes |-> <<<<"l", "m", "s", "t", "u", "d", "i", "o", "/">>, <<"l", "m", "s", "t", "u", "d", "i", "o", ":">>, <<"m", "l", "s", "t", "u", "d", "i", "o", "/">>, <<"m", "l", "s", "t", "u", "d", "i", "o", ":">>>>,
      capabilities |-> [supportsTools |-> TRUE, supportsVision |-> FALSE,
                        supportsStreaming |-> TRUE, supportsJsonMode |-> TRUE]],
     [name |-> "vllm",
      baseUrl |->
          <<"h", "t", "t", "p", ":", "/", "/", "l", "o", "c", "a", "l", "h", "o", "s", "t", ":", "8", "0", "0", "0">>,
      apiPath |-> "/v1/chat/completions",
      envVar |-> "VLLM_BASE_URL",
      apiKeyEnvVar |-> "VLLM_API_KEY",
      prefixes |-> <<<<"v", "l", "l", "m", "/">>, <<"v", "l", "l", "m", ":">>>>,
      capabilities |-> [supportsTools |-> TRUE, supportsVision |-> FALSE,
                        supportsStreaming |-> TRUE, supportsJsonMode |-> TRUE]],
     [name |-> "mlx",
      baseUrl |->
          <<"h", "t", "t", "p", ":", "/", "/", "1", "2", "7", ".", "0", ".", "0", ".", "1", ":", "8", "0", "8", "0">>,
      apiPath |-> "/v1/chat/completions",
      envVar |-> "MLX_BASE_URL",
      apiKeyEnvVar |-> "MLX_API_KEY",
      prefixes |-> <<<<"m", "l", "x", "/">>, <<"m", "l", "x", ":">>>>,
      capabilities |-> [supportsTools |-> FALSE, supportsVision |-> FALSE,
                        supportsStreaming |-> TRUE, supportsJsonMode |-> TRUE]]>>

NoProvider ==
    [name |-> "", baseUrl |-> <<>>, apiPath |-> "", envVar |-> "",
     apiKeyEnvVar |-> "", prefixes |-> <<>>,
     capabilities |-> [supportsTools |-> FALSE, supportsVision |-> FALSE,
                       supportsStreaming |-> FALSE, supportsJsonMode |-> FALSE]]

\* null of resolveProvider and createCustomBaseUrlProvider
NullResolved == [found |-> FALSE, provider |-> NoProvider, modelName |-> <<>>]
\* null of parseUrlModel
NullParsed == [found |-> FALSE, baseUrl |-> <<>>, modelName |-> <<>>]

\* The (provider, prefix) pairs in the order the two loops visit them.
PrefixPairs ==
    { <<i, j>> \in (1..Len(getProviders)) \X (1..4) :
          j <= Len(getProviders[i].prefixes) }

Before(a, b) == a[1] < b[1] \/ (a[1] = b[1] /\ a[2] < b[2])

\* Variant: the prefix is left on the model name.
resolveProvider_keepsPrefix(id) ==
    LET hits == { pr \in PrefixPairs :
                     startsWith(id, getProviders[pr[1]].prefixes[pr[2]]) }
    IN  IF hits = {} THEN NullResolved
        ELSE LET first == CHOOSE pr \in hits :
                              \A other \in hits : other = pr \/ Before(pr, other)
             IN  [found |-> TRUE,
                  provider |-> getProviders[first[1]],
                  modelName |-> id]

resolveProvider(id) ==
    LET hits == { pr \in PrefixPairs :
                     startsWith(id, getProviders[pr[1]].prefixes[pr[2]]) }
    IN  IF hits = {} THEN NullResolved
        ELSE LET first == CHOOSE pr \in hits :
                              \A other \in hits : other = pr \/ Before(pr, other)
                 prefix == getProviders[first[1]].prefixes[first[2]]
             IN  [found |-> TRUE,
                  provider |-> getProviders[first[1]],
                  modelName |-> slice(id, Len(prefix))]

hasCustomBaseUrl(env) == env.set /\ env.value # <<>>

http == <<"h", "t", "t", "p", ":", "/", "/">>
https == <<"h", "t", "t", "p", "s", ":", "/", "/">>

\* new URL(id) for an id that starts with http:// or https://: protocol, host
\* and pathname.  An empty host is an invalid URL.  The ids of the model are
\* written in normal form (lower-case host, explicit non-default port, no
\* user info, query, fragment, escapes or dot segments), so the parts are
\* the characters as written.
parseURL(id) ==
    LET scheme == IF startsWith(id, https) THEN https ELSE http
        rest == slice(id, Len(scheme))
        cut == firstSlash(rest)
    IN  [ok |-> cut > 1,
         protocol |-> SubSeq(scheme, 1, Len(scheme) - 2),
         host |-> SubSeq(rest, 1, cut - 1),
         pathname |-> IF cut > Len(rest) THEN <<"/">> ELSE slice(rest, cut - 1)]

\* Variant: the base URL is scheme and host only.
parseUrlModel_hostOnly(id) ==
    IF ~startsWith(id, http) /\ ~startsWith(id, https) THEN NullParsed
    ELSE LET url == parseURL(id)
             pathParts == SelectSeq(splitSlash(url.pathname), NonEmpty)
         IN  IF ~url.ok THEN NullParsed
             ELSE IF Len(pathParts) = 0 THEN NullParsed
             ELSE [found |-> TRUE,
                   baseUrl |-> url.protocol \o <<"/", "/">> \o url.host,
                   modelName |-> pathParts[Len(pathParts)]]

parseUrlModel(id) ==
    IF ~startsWith(id, http) /\ ~startsWith(id, https) THEN NullParsed
    ELSE LET url == parseURL(id)
             pathParts == SelectSeq(splitSlash(url.pathname), NonEmpty)
         IN  IF ~url.ok THEN NullParsed
             ELSE IF Len(pathParts) = 0 THEN NullParsed
             ELSE LET prefix == joinSlash(SubSeq(pathParts, 1, Len(pathParts) - 1))
                      basePath == IF Len(pathParts) > 1 /\ prefix # <<>>
                                  THEN <<"/">> \o prefix ELSE <<>>
                  IN  [found |-> TRUE,
                       baseUrl |-> url.protocol \o <<"/", "/">> \o url.host \o basePath,
                       modelName |-> pathParts[Len(pathParts)]]

\* Variant: the URL form is not looked at.
isLocalProvider_noUrl(id, env) ==
    IF resolveProvider(id).found THEN TRUE
    ELSE IF hasCustomBaseUrl(env) THEN TRUE
    ELSE FALSE

isLocalProvider(id, env) ==
    IF resolveProvider(id).found THEN TRUE
    ELSE IF parseUrlModel(id).found THEN TRUE
    ELSE IF hasCustomBaseUrl(env) THEN TRUE
    ELSE FALSE

createUrlProvider(parsed) ==
    [name |-> "custom-url", baseUrl |-> parsed.baseUrl,
     apiPath |-> "/v1/chat/completions", envVar |-> "", apiKeyEnvVar |-> "",
     prefixes |-> <<>>,
     capabilities |-> [supportsTools |-> TRUE, supportsVision |-> FALSE,
                       supportsStreaming |-> TRUE, supportsJsonMode |-> TRUE]]

RECURSIVE stripTrailingSlashes(_)
\* s.replace(/\/+$/, "")
stripTrailingSlashes(s) ==
    IF s # <<>> /\ s[Len(s)] = "/"
    THEN stripTrailingSlashes(SubSeq(s, 1, Len(s) - 1))
    ELSE s

chatCompletions == <<"/", "c", "h", "a", "t", "/", "c", "o", "m", "p", "l", "e", "t", "i", "o", "n", "s">>

createCustomBaseUrlProvider(name, env) ==
    IF ~hasCustomBaseUrl(env) THEN NullResolved
    ELSE LET stripped == stripTrailingSlashes(env.value)
             normalizedUrl == IF endsWith(stripped, chatCompletions)
                              THEN SubSeq(stripped, 1,
                                          Len(stripped) - Len(chatCompletions))
                              ELSE stripped
         IN  [found |-> TRUE,
              provider |-> [name |-> "custom-base-url", baseUrl |-> normalizedUrl,
                            apiPath |-> "/chat/completions",
                            envVar |-> "CLAUDISH_BASE_URL", apiKeyEnvVar |-> "",
                            prefixes |-> <<>>,
                            capabilities |->
                                [supportsTools |-> TRUE, supportsVision |-> FALSE,
                                 supportsStreaming |-> TRUE,
                                 supportsJsonMode |-> TRUE]],
              modelName |-> name]

\* Model resolution of the dispatcher: prefix, URL, custom base URL, else
\* the hosted aggregator.
selectHandler(id, env) ==
    IF resolveProvider(id).found
    THEN [kind |-> "prefix", provider |-> resolveProvider(id).provider,
          modelName |-> resolveProvider(id).modelName]
    ELSE IF parseUrlModel(id).found
    THEN [kind |-> "url", provider |-> createUrlProvider(parseUrlModel(id)),
          modelName |-> parseUrlModel(id).modelName]
    ELSE IF createCustomBaseUrlProvider(id, env).found
    THEN [kind |-> "custom", provider |-> createCustomBaseUrlProvider(id, env).provider,
          modelName |-> createCustomBaseUrlProvider(id, env).modelName]
    ELSE [kind |-> "hosted", provider |-> NoProvider, modelName |-> id]

\* Model ids: a registered prefix or a near miss, followed by a name.
PrefixHeads ==
    {<<"o", "l", "l", "a", "m", "a", "/">>,
     <<"o", "l", "l", "a", "m", "a", ":">>,
     <<"l", "m", "s", "t", "u", "d", "i", "o", "/">>,
     <<"l", "m", "s", "t", "u", "d", "i", "o", ":">>,
     <<"m", "l", "s", "t", "u", "d", "i", "o", "/">>,
     <<"m", "l", "s", "t", "u", "d", "i", "o", ":">>,
     <<"v", "l", "l", "m", "/">>,
     <<"v", "l", "l", "m", ":">>,
     <<"m", "l", "x", "/">>,
     <<"m", "l", "x", ":">>,
     <<"o", "l", "l", "a", "m", "a">>,
     <<"O", "l", "l", "a", "m", "a", "/">>,
     <<"x", "o", "l", "l", "a", "m", "a", "/">>,
     <<"m", "l", "x">>,
     <<"o", "p", "e", "n", "a", "i", "/">>,
     <<>>}
NameTails ==
    {<<>>,
     <<"m">>,
     <<"m", "/", "x">>,
     <<"/", "m">>,
     <<":", "m">>,
     <<"m", ":", "1">>}
\* Model ids: URLs, as scheme, authority and path.
Schemes == {http, https}
Authorities == {<<>>, <<"h">>, <<"h", ":", "1">>}
Paths ==
    {<<>>,
     <<"/">>,
     <<"/", "m">>,
     <<"/", "m", "/">>,
     <<"/", "v", "/", "m">>,
     <<"/", "/", "v", "/", "/", "m">>,
     <<"/", "v", "/", "w", "/", "m">>}
UrlIds ==
    { sc \o au \o pa : sc \in Schemes, au \in Authorities, pa \in Paths } \
        { sc \o pa : sc \in Schemes, pa \in Paths \ {<<>>} }
ModelIds ==
    { h \o t : h \in PrefixHeads, t \in NameTails } \cup UrlIds
        \cup {<<"f", "t", "p", ":", "/", "/", "h", "/", "m">>, <<"h", "t", "t", "p", ":", "/", "h", "/", "m">>}

\* Settings of CLAUDISH_BASE_URL: unset, empty, and values.
BaseUrlValues ==
    {<<>>,
     <<"h", "t", "t", "p", ":", "/", "/", "c", "/", "v">>,
     <<"h", "t", "t", "p", ":", "/", "/", "c", "/", "v", "/">>,
     <<"h", "t", "t", "p", ":", "/", "/", "c", "/", "v", "/", "/">>,
     <<"h", "t", "t", "p", ":", "/", "/", "c", "/", "v", "/", "c", "h", "a", "t", "/", "c", "o", "m", "p", "l", "e", "t", "i", "o", "n", "s">>,
     <<"h", "t", "t", "p", ":", "/", "/", "c", "/", "v", "/", "c", "h", "a", "t", "/", "c", "o", "m", "p", "l", "e", "t", "i", "o", "n", "s", "/">>,
     <<"h", "t", "t", "p", ":", "/", "/", "c", "/", "v", "/", "/", "c", "h", "a", "t", "/", "c", "o", "m", "p", "l", "e", "t", "i", "o", "n", "s">>,
     <<"h", "t", "t", "p", ":", "/", "/", "c", "/", "v", "/", "c", "h", "a", "t", "/", "c", "o", "m", "p", "l", "e", "t", "i", "o", "n", "s", "/", "c", "h", "a", "t", "/", "c", "o", "m", "p", "l", "e", "t", "i", "o", "n", "s">>}
BaseUrlSettings ==
    {[set |-> FALSE, value |-> <<>>]} \cup
        { [set |-> TRUE, value |-> v] : v \in BaseUrlValues }

NoRoute ==
    [done |-> FALSE, resolved |-> NullResolved, parsed |-> NullParsed,
     isLocal |-> FALSE,
     handler |-> [kind |-> "", provider |-> NoProvider, modelName |-> <<>>]]

\* One request's model resolution.
Resolve ==
    /\ ~route.done
    /\ route' = [done |-> TRUE,
                 resolved |-> resolveProvider(modelId),
                 parsed |-> parseUrlModel(modelId),
                 isLocal |-> isLocalProvider(modelId, CLAUDISH_BASE_URL),
                 handler |-> selectHandler(modelId, CLAUDISH_BASE_URL)]
    /\ UNCHANGED <<modelId, CLAUDISH_BASE_URL>>
    /\ UNCHANGED <<streamVars, cacheVars, handlerVars, sessionVars, usageVars>>

RegistryIdle ==
    /\ modelId = <<>>
    /\ CLAUDISH_BASE_URL = [set |-> FALSE, value |-> <<>>]
    /\ route = NoRoute

----------------------------------------------------------------------------
(* The local-provider handler *)

DefaultContextWindow == 8192
DefaultErrorStatus == 503

\* Outcome of a probe: an OK response, a non-2xx response, or a rejected
\* fetch (the 5 s timeout, or a connection failure).
ProbeOutcomes == {"ok", "status", "timeout", "refused"}
Rejected == {"timeout", "refused"}

\* Outcome of POST /api/show: OK with general.context_length, OK with a
\* num_ctx parameter, OK with neither, a non-2xx response, a rejected fetch.
ContextLengths == {4096}
ShowOutcomes ==
    { [kind |-> k, ctx |-> c] : k \in {"info", "params"}, c \in ContextLengths }
        \cup { [kind |-> k, ctx |-> 0] : k \in {"none", "status", "timeout"} }

Networks == [tags : ProbeOutcomes, models : ProbeOutcomes, show : ShowOutcomes]

\* The client request after transformation: tool names, tool_choice, stream.
NoChoice == [type |-> "", name |-> ""]
ToolChoices ==
    {NoChoice, [type |-> "auto", name |-> ""], [type |-> "none", name |-> ""],
     [type |-> "tool", name |-> "t"], [type |-> "tool", name |-> ""],
     [type |-> "any", name |-> ""]}
\* dropped: the droppedParams that transformOpenAIToClaude returns for it.
Requests ==
    [tools : {<<>>, <<"t">>}, tool_choice : ToolChoices, stream : BOOLEAN,
     dropped : {<<>>, <<"p">>}]
NoRequest ==
    [tools |-> <<>>, tool_choice |-> NoChoice, stream |-> FALSE, dropped |-> <<>>]

\* Error bodies of the backend.  kind says what the text is wrapped in:
\*   "text"           the text itself, not JSON
\*   "error.message"  {"error":{"message":text}}
\*   "error"          {"error":text}
\*   "error.code"     {"error":{"code":text}}
\*   "message"        {"message":text}
BodyKinds == {"text", "error.message", "error", "error.code", "message"}
BodyTexts ==
    {<<>>,
     <<"m", "o", "d", "e", "l", " ", "x", " ", "n", "o", "t", " ", "f", "o", "u", "n", "d">>,
     <<"m", "o", "d", "e", "l", " ", "d", "o", "e", "s", " ", "n", "o", "t", " ", "e", "x", "i", "s", "t">>,
     <<"n", "o", "t", " ", "f", "o", "u", "n", "d">>,
     <<"m", " ", "d", "o", "e", "s", " ", "n", "o", "t", " ", "s", "u", "p", "p", "o", "r", "t", " ", "t", "o", "o", "l", "s">>,
     <<"t", "o", "o", "l", " ", "n", "o", "t", " ", "s", "u", "p", "p", "o", "r", "t", "e", "d">>,
     <<"m", "o", "d", "e", "l", " ", "n", "o", "t", " ", "f", "o", "u", "n", "d", " ", "t", "o", "o", "l", " ", "n", "o", "t", " ", "s", "u", "p", "p", "o", "r", "t", "e", "d">>}
Bodies == [kind : BodyKinds, text : BodyTexts]
NoBody == [kind |-> "text", text |-> <<>>]
BackendStatuses == {400, 404, 429, 500, 502}

\* Outcome of the chat-completions fetch: a 2xx response, a non-2xx response
\* with a body, connection refused, or another failure of the fetch.
ChatOutcomes ==
    { [kind |-> "status", status |-> s, body |-> b] :
          s \in BackendStatuses, b \in Bodies }
        \cup { [kind |-> k, status |-> 0, body |-> NoBody] :
                  k \in {"ok", "refused", "failed"} }
NoChat == [kind |-> "", status |-> 0, body |-> NoBody]

\* errorBody, the text of the response.
rawText(body) ==
    CASE body.kind = "text" -> body.text
      [] body.kind = "error.message" ->
            <<"{", "\"", "e", "r", "r", "o", "r", "\"", ":", "{", "\"", "m", "e", "s", "s", "a", "g", "e", "\"", ":", "\"">> \o body.text \o <<"\"", "}", "}">>
      [] body.kind = "error" ->
            <<"{", "\"", "e", "r", "r", "o", "r", "\"", ":", "\"">> \o body.text \o <<"\"", "}">>
      [] body.kind = "error.code" ->
            <<"{", "\"", "e", "r", "r", "o", "r", "\"", ":", "{", "\"", "c", "o", "d", "e", "\"", ":", "\"">> \o body.text \o <<"\"", "}", "}">>
      [] body.kind = "message" ->
            <<"{", "\"", "m", "e", "s", "s", "a", "g", "e", "\"", ":", "\"">> \o body.text \o <<"\"", "}">>

\* parsed.error?.message || parsed.error || errorBody, for a body that
\* parses.  An empty string is falsy; an error object is not a string.
errorMsgOf(body) ==
    CASE body.kind = "error.message" ->
            IF body.text # <<>> THEN [isString |-> TRUE, chars |-> body.text]
            ELSE [isString |-> FALSE, chars |-> <<>>]
      [] body.kind = "error" ->
            IF body.text # <<>> THEN [isString |-> TRUE, chars |-> body.text]
            ELSE [isString |-> TRUE, chars |-> rawText(body)]
      [] body.kind = "error.code" -> [isString |-> FALSE, chars |-> <<>>]
      [] OTHER -> [isString |-> TRUE, chars |-> rawText(body)]

\* Messages: a template and what fills it.
Message(template, label, hint, verbatim) ==
    [template |-> template, label |-> label, baseUrl |-> provider.baseUrl,
     modelName |-> modelName, hint |-> hint, verbatim |-> verbatim]
NoMessage ==
    [template |-> "", label |-> "", baseUrl |-> <<>>, modelName |-> <<>>,
     hint |-> "", verbatim |-> <<>>]

\* Variant: every provider gets the generic message.
getConnectionErrorMessage_generic ==
    Message("Cannot connect to {label} at {baseUrl}. {hint}", provider.name,
            "Make sure the server is running.", <<>>)

getConnectionErrorMessage ==
    CASE provider.name = "ollama" ->
            Message("Cannot connect to {label} at {baseUrl}. {hint}", "Ollama",
                    "Make sure Ollama is running with: ollama serve", <<>>)
      [] provider.name = "lmstudio" ->
            Message("Cannot connect to {label} at {baseUrl}. {hint}", "LM Studio",
                    "Make sure LM Studio server is running.", <<>>)
      [] provider.name = "vllm" ->
            Message("Cannot connect to {label} at {baseUrl}. {hint}", "vLLM",
                    "Make sure vLLM server is running.", <<>>)
      [] OTHER ->
            Message("Cannot connect to {label} at {baseUrl}. {hint}", provider.name,
                    "Make sure the server is running.", <<>>)

getModelPullHint ==
    CASE provider.name = "ollama" -> "Pull it with: ollama pull {modelName}"
      [] OTHER -> "Make sure the model is available on the server."

NoReply == [kind |-> "none", status |-> 0, type |-> "", message |-> NoMessage]

\* Variant: the status argument is ignored.
errorResponse_defaultStatus(type, message, status) ==
    [kind |-> "json", status |-> DefaultErrorStatus, type |-> type,
     message |-> message]

errorResponse(type, message, status) ==
    [kind |-> "json", status |-> status, type |-> type, message |-> message]

w_model == <<"m", "o", "d", "e", "l">>
w_not_found == <<"n", "o", "t", " ", "f", "o", "u", "n", "d">>
w_does_not_exist == <<"d", "o", "e", "s", " ", "n", "o", "t", " ", "e", "x", "i", "s", "t">>
w_does_not_support_tools == <<"d", "o", "e", "s", " ", "n", "o", "t", " ", "s", "u", "p", "p", "o", "r", "t", " ", "t", "o", "o", "l", "s">>
w_tool == <<"t", "o", "o", "l">>
w_not_supported == <<"n", "o", "t", " ", "s", "u", "p", "p", "o", "r", "t", "e", "d">>

\* Variant: the capability test comes before the model-not-found test.
handleErrorResponse_capabilityFirst(status, body) ==
    IF body.kind = "text"
    THEN errorResponse("api_error", Message("{verbatim}", "", "", rawText(body)), status)
    ELSE LET errorMsg == errorMsgOf(body)
         IN  IF ~errorMsg.isString
             THEN errorResponse("api_error",
                                Message("{verbatim}", "", "", rawText(body)), status)
             ELSE IF \/ includes(errorMsg.chars, w_does_not_support_tools)
                     \/ /\ includes(errorMsg.chars, w_tool)
                        /\ includes(errorMsg.chars, w_not_supported)
             THEN errorResponse("capability_error",
                                Message("Model '{modelName}' does not support tool/function calling. {hint}",
                                        "", "Try a model that supports tools", <<>>),
                                400)
             ELSE IF /\ includes(errorMsg.chars, w_model)
                     /\ \/ includes(errorMsg.chars, w_not_found)
                        \/ includes(errorMsg.chars, w_does_not_exist)
             THEN errorResponse("model_not_found",
                                Message("Model '{modelName}' not found. {hint}", "",
                                        getModelPullHint, <<>>),
                                DefaultErrorStatus)
             ELSE errorResponse("api_error",
                                Message("{verbatim}", "", "", errorMsg.chars), status)

handleErrorResponse(status, body) ==
    IF body.kind = "text"
    THEN errorResponse("api_error", Message("{verbatim}", "", "", rawText(body)), status)
    ELSE LET errorMsg == errorMsgOf(body)
         IN  IF ~errorMsg.isString
             THEN errorResponse("api_error",
                                Message("{verbatim}", "", "", rawText(body)), status)
             ELSE IF /\ includes(errorMsg.chars, w_model)
                     /\ \/ includes(errorMsg.chars, w_not_found)
                        \/ includes(errorMsg.chars, w_does_not_exist)
             THEN errorResponse("model_not_found",
                                Message("Model '{modelName}' not found. {hint}", "",
                                        getModelPullHint, <<>>),
                                DefaultErrorStatus)
             ELSE IF \/ includes(errorMsg.chars, w_does_not_support_tools)
                     \/ /\ includes(errorMsg.chars, w_tool)
                        /\ includes(errorMsg.chars, w_not_supported)
             THEN errorResponse("capability_error",
                                Message("Model '{modelName}' does not support tool/function calling. {hint}",
                                        "", "Try a model that supports tools", <<>>),
                                400)
             ELSE errorResponse("api_error",
                                Message("{verbatim}", "", "", errorMsg.chars), status)

\* Variant: the verdict returned is always healthy.
checkHealth_optimistic(checked, healthy, net) ==
    IF checked
    THEN [healthChecked |-> checked, isHealthy |-> healthy, probes |-> <<>>,
          result |-> TRUE]
    ELSE [healthChecked |-> TRUE,
          isHealthy |-> net.tags = "ok" \/ (net.tags \in Rejected /\ net.models = "ok"),
          probes |-> IF net.tags \in Rejected THEN <<"/api/tags", "/v1/models">>
                     ELSE <<"/api/tags">>,
          result |-> TRUE]

\* The health probes: /api/tags; /v1/models only when the first fetch was
\* rejected.  Returns the flags, the probes issued and the verdict.
checkHealth(checked, healthy, net) ==
    IF checked
    THEN [healthChecked |-> checked, isHealthy |-> healthy, probes |-> <<>>,
          result |-> healthy]
    ELSE IF net.tags = "ok"
    THEN [healthChecked |-> TRUE, isHealthy |-> TRUE, probes |-> <<"/api/tags">>,
          result |-> TRUE]
    ELSE IF net.tags \in Rejected
    THEN IF net.models = "ok"
         THEN [healthChecked |-> TRUE, isHealthy |-> TRUE,
               probes |-> <<"/api/tags", "/v1/models">>, result |-> TRUE]
         ELSE [healthChecked |-> TRUE, isHealthy |-> FALSE,
               probes |-> <<"/api/tags", "/v1/models">>, result |-> FALSE]
    ELSE [healthChecked |-> TRUE, isHealthy |-> FALSE, probes |-> <<"/api/tags">>,
          result |-> FALSE]

\* Variant: every provider is asked for /api/show.
fetchContextWindow_anyProvider(ctx, net) ==
    [contextWindow |->
         CASE net.show.kind \in {"info", "params"} -> net.show.ctx
           [] net.show.kind = "none" -> DefaultContextWindow
           [] OTHER -> ctx,
     probes |-> <<"/api/show">>]

\* The context window after the /api/show probe, and the probes issued.
fetchContextWindow(ctx, net) ==
    IF provider.name # "ollama" THEN [contextWindow |-> ctx, probes |-> <<>>]
    ELSE [contextWindow |->
              CASE net.show.kind \in {"info", "params"} -> net.show.ctx
                [] net.show.kind = "none" -> DefaultContextWindow
                [] OTHER -> ctx,
          probes |-> <<"/api/show">>]

\* Each declared tool becomes one function tool of the same name.
convertToolsToOpenAI(req) == req.tools

\* Variant: tool_choice is decided on the declared tools, not the final ones.
buildPayload_choiceOnDeclared(req) ==
    LET tools == convertToolsToOpenAI(req)
        finalTools == IF provider.capabilities.supportsTools THEN tools ELSE <<>>
        choice == req.tool_choice
    IN  [model |-> modelName,
         stream |-> provider.capabilities.supportsStreaming,
         has_tools |-> Len(finalTools) > 0,
         tools |-> finalTools,
         tool_choice |->
             IF choice # NoChoice /\ Len(tools) > 0
             THEN IF choice.type = "tool" /\ choice.name # ""
                  THEN [type |-> "function", name |-> choice.name]
                  ELSE IF choice.type \in {"auto", "none"}
                  THEN [type |-> choice.type, name |-> ""]
                  ELSE NoChoice
             ELSE NoChoice]

\* The OpenAI payload as serialised: a field that is undefined is absent.
buildPayload(req) ==
    LET tools == convertToolsToOpenAI(req)
        finalTools == IF provider.capabilities.supportsTools THEN tools ELSE <<>>
        choice == req.tool_choice
    IN  [model |-> modelName,
         stream |-> provider.capabilities.supportsStreaming,
         has_tools |-> Len(finalTools) > 0,
         tools |-> finalTools,
         tool_choice |->
             IF choice # NoChoice /\ Len(finalTools) > 0
             THEN IF choice.type = "tool" /\ choice.name # ""
                  THEN [type |-> "function", name |-> choice.name]
                  ELSE IF choice.type \in {"auto", "none"}
                  THEN [type |-> choice.type, name |-> ""]
                  ELSE NoChoice
             ELSE NoChoice]

\* The upstream request of handle.
chatRequest(payload) ==
    [url |-> [baseUrl |-> provider.baseUrl, apiPath |-> provider.apiPath],
     method |-> "POST",
     headers |-> [h \in {"Content-Type"} |-> "application/json"],
     body |-> payload]

NoNet == [tags |-> "", models |-> "", show |-> [kind |-> "", ctx |-> 0]]

NoHandle ==
    [request |-> NoRequest, net |-> NoNet, probes |-> <<>>, sent |-> <<>>,
     chat |-> NoChat, reply |-> NoReply, first |-> FALSE,
     steps |-> <<>>, prepared |-> <<>>, dropped |-> <<>>, header |-> <<>>]

\* What handle does between the health gate and the reply, in order.
handleSteps_fetchFirst ==
    <<"fetch", "adapter.reset", "adapter.prepareRequest",
      "middleware.beforeRequest">>

handleSteps ==
    <<"adapter.reset", "adapter.prepareRequest", "middleware.beforeRequest",
      "fetch">>

\* Variant: the header is set before the status of the reply is looked at.
droppedParamsHeader_anyReply(chat, droppedParams) == droppedParams

\* The X-Dropped-Params header of the reply; <<>> when it is not set.
droppedParamsHeader(chat, droppedParams) ==
    IF chat.kind = "ok" /\ Len(droppedParams) > 0 THEN droppedParams ELSE <<>>

\* handle, up to its upstream fetch: the health gate on the first request,
\* the payload, the POST.  An unhealthy verdict is answered at once.
HandleRequest(req, net) ==
    /\ hpc = "idle"
    /\ nhandled < MaxHandled
    /\ nhandled' = nhandled + 1
    /\ IF ~healthChecked
       THEN LET hc == checkHealth(healthChecked, isHealthy, net)
                cw == fetchContextWindow(contextWindow, net)
            IN  /\ healthChecked' = hc.healthChecked
                /\ isHealthy' = hc.isHealthy
                /\ IF ~hc.result
                   THEN /\ contextWindow' = contextWindow
                        /\ hpc' = "idle"
                        /\ lastHandle' =
                              [request |-> req, net |-> net, probes |-> hc.probes,
                               sent |-> <<>>,
                               chat |-> NoChat,
                               reply |-> errorResponse("connection_error",
                                                       getConnectionErrorMessage,
                                                       DefaultErrorStatus),
                               first |-> TRUE,
                               steps |-> <<>>, prepared |-> <<>>,
                               dropped |-> req.dropped, header |-> <<>>]
                   ELSE /\ contextWindow' = cw.contextWindow
                        /\ hpc' = "awaiting"
                        /\ lastHandle' =
                              [request |-> req, net |-> net,
                               probes |-> hc.probes \o cw.probes,
                               sent |-> <<chatRequest(buildPayload(req))>>,
                               chat |-> NoChat, reply |-> NoReply, first |-> TRUE,
                               steps |-> handleSteps,
                               prepared |-> <<buildPayload(req)>>,
                               dropped |-> req.dropped, header |-> <<>>]
       ELSE /\ UNCHANGED <<healthChecked, isHealthy, contextWindow>>
            /\ hpc' = "awaiting"
            /\ lastHandle' =
                  [request |-> req, net |-> NoNet, probes |-> <<>>,
                   sent |-> <<chatRequest(buildPayload(req))>>,
                   chat |-> NoChat, reply |-> NoReply, first |-> FALSE,
                   steps |-> handleSteps, prepared |-> <<buildPayload(req)>>,
                   dropped |-> req.dropped, header |-> <<>>]
    /\ UNCHANGED <<provider, modelName, apiKeys>>
    /\ UNCHANGED <<streamVars, cacheVars, registryVars, sessionVars, usageVars>>

\* The outcomes of probes that the gate does not look at are left out.
Relevant(net) ==
    /\ net.tags \notin Rejected => net.models = "ok"
    /\ (healthChecked \/ provider.name # "ollama"
        \/ ~checkHealth(healthChecked, isHealthy, net).result)
          => net.show.kind = "none"
    /\ healthChecked => net.tags = "ok"

\* handle, from the outcome of its upstream fetch to the reply.
replyOf(chat, stream) ==
    CASE chat.kind = "status" -> handleErrorResponse(chat.status, chat.body)
      [] chat.kind = "ok" ->
            IF stream
            THEN [kind |-> "stream", status |-> 200, type |-> "", message |-> NoMessage]
            ELSE [kind |-> "passthrough", status |-> 200, type |-> "",
                  message |-> NoMessage]
      [] chat.kind = "refused" ->
            errorResponse("connection_error", getConnectionErrorMessage,
                          DefaultErrorStatus)
      [] OTHER -> [kind |-> "thrown", status |-> 0, type |-> "", message |-> NoMessage]

HandleReply(chat) ==
    /\ hpc = "awaiting"
    /\ hpc' = "idle"
    /\ lastHandle' =
          [request |-> NoRequest, net |-> NoNet, probes |-> <<>>, sent |-> <<>>,
           chat |-> chat,
           reply |-> replyOf(chat, lastHandle.sent[1].body.stream),
           first |-> lastHandle.first,
           steps |-> <<>>, prepared |-> <<>>,
           dropped |-> lastHandle.dropped,
           header |-> droppedParamsHeader(chat, lastHandle.dropped)]
    /\ UNCHANGED <<provider, modelName, apiKeys, healthChecked, isHealthy,
                   contextWindow, nhandled>>
    /\ UNCHANGED <<streamVars, cacheVars, registryVars, sessionVars, usageVars>>

\* The model ids a handler is created for, one per kind of provider.
HandlerIds ==
    {<<"o", "l", "l", "a", "m", "a", "/", "m">>,
     <<"l", "m", "s", "t", "u", "d", "i", "o", "/", "m">>,
     <<"v", "l", "l", "m", ":", "m">>,
     <<"m", "l", "x", "/", "m">>,
     <<"h", "t", "t", "p", ":", "/", "/", "h", ":", "1", "/", "v", "/", "m">>,
     <<"m">>}
HandlerBaseUrl == [set |-> TRUE, value |-> <<"h", "t", "t", "p", ":", "/", "/", "c", "/", "v">>]

\* Values of process.env[provider.apiKeyEnvVar] and of
\* CLAUDISH_LOCAL_API_KEY; "" when unset.
ApiKeySettings == [own : {"", "pk"}, local : {"", "lk"}]

HandlerIdle ==
    /\ provider = NoProvider
    /\ modelName = <<>>
    /\ apiKeys = [own |-> "", local |-> ""]
    /\ healthChecked = FALSE
    /\ isHealthy = FALSE
    /\ contextWindow = DefaultContextWindow
    /\ hpc = "idle"
    /\ nhandled = 0
    /\ lastHandle = NoHandle

----------------------------------------------------------------------------
(* Concurrent requests on one handler, and the token file *)

Tasks == 1..MaxTasks

\* A request of the handler: where its handle call is, the outcome of its
\* /api/tags probe, the deltas its stream passed to the adapter, and whether
\* it has issued the health probes and the /api/show probe.
NoTask ==
    [pc |-> "new", tags |-> "", deltas |-> 0, reply |-> "",
     probed |-> FALSE, showed |-> FALSE]

\* The adapter the handler's AdapterManager hands out: what it has buffered
\* of the deltas passed through it.
NewAdapter == [buffered |-> 0]
reset(a) == [a EXCEPT !.buffered = 0]
transformDelta(a) == [a EXCEPT !.buffered = @ + 1]

\* Usage reports (input, output) of the streams.
UsageReports == {<<0, 0>>, <<1024, 0>>, <<0, 512>>, <<4096, 3072>>}

\* Math.round(num / den) for den > 0: halves go up.
Round(num, den) == (2 * num + den) \div (2 * den)
Max(a, b) == IF a >= b THEN a ELSE b
Min(a, b) == IF a <= b THEN a ELSE b

NoFile ==
    [written |-> FALSE, input_tokens |-> 0, output_tokens |-> 0,
     total_tokens |-> 0, total_cost |-> 0, context_window |-> 0,
     context_left_percent |-> 0]

\* Variant: the percentage is truncated, not rounded.
writeTokenFile_truncates(sin, sout, cw, old, input, output, fails) ==
    LET i == sin + input
        o == sout + output
        total == i + o
        leftPct == IF cw > 0
                   THEN Max(0, Min(100, ((cw - total) * 100) \div cw))
                   ELSE 100
        data == [written |-> TRUE, input_tokens |-> i, output_tokens |-> o,
                 total_tokens |-> total, total_cost |-> 0,
                 context_window |-> cw, context_left_percent |-> leftPct]
    IN  IF fails
        THEN [sessionInputTokens |-> i, sessionOutputTokens |-> o,
              file |-> old]
        ELSE [sessionInputTokens |-> i, sessionOutputTokens |-> o, file |-> data]

\* Variant: the totals are added up only once the file has been written.
writeTokenFile_countsAfterWrite(sin, sout, cw, old, input, output, fails) ==
    LET i == sin + input
        o == sout + output
        total == i + o
        leftPct == IF cw > 0
                   THEN Max(0, Min(100, Round((cw - total) * 100, cw)))
                   ELSE 100
        data == [written |-> TRUE, input_tokens |-> i, output_tokens |-> o,
                 total_tokens |-> total, total_cost |-> 0,
                 context_window |-> cw, context_left_percent |-> leftPct]
    IN  IF fails
        THEN [sessionInputTokens |-> sin, sessionOutputTokens |-> sout,
              file |-> old]
        ELSE [sessionInputTokens |-> i, sessionOutputTokens |-> o, file |-> data]

\* The session totals after a report, and the file: the totals are added up,
\* then the data is written (updated_at left out); when writeFileSync
\* throws, the catch ignores it and the file stays as it was.
writeTokenFile(sin, sout, cw, old, input, output, fails) ==
    LET i == sin + input
        o == sout + output
        total == i + o
        leftPct == IF cw > 0
                   THEN Max(0, Min(100, Round((cw - total) * 100, cw)))
                   ELSE 100
        data == [written |-> TRUE, input_tokens |-> i, output_tokens |-> o,
                 total_tokens |-> total, total_cost |-> 0,
                 context_window |-> cw, context_left_percent |-> leftPct]
    IN  IF fails
        THEN [sessionInputTokens |-> i, sessionOutputTokens |-> o,
              file |-> old]
        ELSE [sessionInputTokens |-> i, sessionOutputTokens |-> o, file |-> data]

NoShow == [kind |-> "", ctx |-> 0]
NoStep == [kind |-> "", task |-> 0, show |-> NoShow]
Step(kind, t) == [kind |-> kind, task |-> t, show |-> NoShow]

SessionKeep == UNCHANGED <<provider, modelName, apiKeys, hpc, nhandled, lastHandle>>
SessionOthers == UNCHANGED <<streamVars, cacheVars, registryVars, usageVars>>
TokensKeep == UNCHANGED <<sessionInputTokens, sessionOutputTokens, tokenFile, reports>>

\* handle after a passed health gate: fetchContextWindow, which returns at
\* once or waits for /api/show; then the payload, adapter.reset() and the
\* upstream fetch.
Continue(t) ==
    IF fetchContextWindow(contextWindow, NoNet).probes # <<>>
    THEN /\ task' = [task EXCEPT ![t].pc = "show", ![t].showed = TRUE]
         /\ adapter' = adapter
    ELSE /\ task' = [task EXCEPT ![t].pc = "awaiting", ![t].deltas = 0]
         /\ adapter' = reset(adapter)

\* handle is called: the health flag is read, and either /api/tags is
\* fetched or the request goes on to its upstream fetch.
Arrive(t) ==
    /\ task[t].pc = "new"
    /\ \A u \in Tasks : u < t => task[u].pc # "new"
    /\ IF ~healthChecked
       THEN /\ task' = [task EXCEPT ![t].pc = "tags", ![t].probed = TRUE]
            /\ adapter' = adapter
       ELSE /\ task' = [task EXCEPT ![t].pc = "awaiting", ![t].deltas = 0]
            /\ adapter' = reset(adapter)
    /\ lastStep' = Step("arrive", t)
    /\ UNCHANGED <<healthChecked, isHealthy, contextWindow, learned>>
    /\ TokensKeep /\ SessionKeep /\ SessionOthers

\* The /api/tags fetch of checkHealth settles.
TagsSettled(t, outcome) ==
    /\ task[t].pc = "tags"
    /\ LET hc == checkHealth(FALSE, isHealthy,
                             [NoNet EXCEPT !.tags = outcome, !.models = "ok"])
       IN  IF Len(hc.probes) > 1
           THEN /\ task' = [task EXCEPT ![t].pc = "models", ![t].tags = outcome]
                /\ UNCHANGED <<healthChecked, isHealthy, adapter>>
           ELSE /\ healthChecked' = hc.healthChecked
                /\ isHealthy' = hc.isHealthy
                /\ IF hc.result THEN Continue(t)
                   ELSE /\ task' = [task EXCEPT ![t].pc = "done",
                                                ![t].reply = "connection_error"]
                        /\ adapter' = adapter
    /\ lastStep' = Step("tags", t)
    /\ UNCHANGED <<contextWindow, learned>>
    /\ TokensKeep /\ SessionKeep /\ SessionOthers

\* The /v1/models fetch of checkHealth settles.
ModelsSettled(t, outcome) ==
    /\ task[t].pc = "models"
    /\ LET hc == checkHealth(FALSE, isHealthy,
                             [NoNet EXCEPT !.tags = task[t].tags, !.models = outcome])
       IN  /\ healthChecked' = hc.healthChecked
           /\ isHealthy' = hc.isHealthy
           /\ IF hc.result THEN Continue(t)
              ELSE /\ task' = [task EXCEPT ![t].pc = "done",
                                           ![t].reply = "connection_error"]
                   /\ adapter' = adapter
    /\ lastStep' = Step("models", t)
    /\ UNCHANGED <<contextWindow, learned>>
    /\ TokensKeep /\ SessionKeep /\ SessionOthers

\* The /api/show fetch of fetchContextWindow settles; handle goes on to the
\* payload, adapter.reset() and the upstream fetch.
ShowSettled(t, outcome) ==
    /\ task[t].pc = "show"
    /\ contextWindow' =
          fetchContextWindow(contextWindow, [NoNet EXCEPT !.show = outcome]).contextWindow
    /\ learned' = (learned \/ outcome.kind \in {"info", "params"})
    /\ task' = [task EXCEPT ![t].pc = "awaiting", ![t].deltas = 0]
    /\ adapter' = reset(adapter)
    /\ lastStep' = [kind |-> "show", task |-> t, show |-> outcome]
    /\ UNCHANGED <<healthChecked, isHealthy>>
    /\ TokensKeep /\ SessionKeep /\ SessionOthers

\* The upstream fetch settles: a 2xx response starts the stream translation,
\* anything else is answered with an error.
ChatSettled(t, ok) ==
    /\ task[t].pc = "awaiting"
    /\ task' = [task EXCEPT ![t].pc = IF ok THEN "streaming" ELSE "done",
                            ![t].reply = IF ok THEN "stream" ELSE "error"]
    /\ lastStep' = Step("chat", t)
    /\ UNCHANGED <<healthChecked, isHealthy, contextWindow, learned, adapter>>
    /\ TokensKeep /\ SessionKeep /\ SessionOthers

\* The stream translation passes a delta through the adapter.
StreamDelta(t) ==
    /\ task[t].pc = "streaming"
    /\ task[t].deltas < MaxDeltas
    /\ adapter' = transformDelta(adapter)
    /\ task' = [task EXCEPT ![t].deltas = @ + 1]
    /\ lastStep' = Step("delta", t)
    /\ UNCHANGED <<healthChecked, isHealthy, contextWindow, learned>>
    /\ TokensKeep /\ SessionKeep /\ SessionOthers

\* The stream translation reports usage: writeTokenFile(input, output), the
\* write succeeding or failing.  reports records (input, output, written).
Usage(t, report, fails) ==
    /\ task[t].pc = "streaming"
    /\ Len(reports) < MaxReports
    /\ LET w == writeTokenFile(sessionInputTokens, sessionOutputTokens,
                               contextWindow, tokenFile, report[1], report[2],
                               fails)
       IN  /\ sessionInputTokens' = w.sessionInputTokens
           /\ sessionOutputTokens' = w.sessionOutputTokens
           /\ tokenFile' = w.file
    /\ reports' = Append(reports, <<report[1], report[2], ~fails>>)
    /\ lastStep' = Step(IF fails THEN "usage_lost" ELSE "usage", t)
    /\ UNCHANGED <<task, adapter, healthChecked, isHealthy, contextWindow, learned>>
    /\ SessionKeep /\ SessionOthers

\* The stream of a request ends.
StreamEnd(t) ==
    /\ task[t].pc = "streaming"
    /\ task' = [task EXCEPT ![t].pc = "done"]
    /\ lastStep' = Step("end", t)
    /\ UNCHANGED <<healthChecked, isHealthy, contextWindow, learned, adapter>>
    /\ TokensKeep /\ SessionKeep /\ SessionOthers

SessionIdle ==
    /\ task = [t \in Tasks |-> NoTask]
    /\ adapter = NewAdapter
    /\ sessionInputTokens = 0
    /\ sessionOutputTokens = 0
    /\ tokenFile = NoFile
    /\ reports = <<>>
    /\ learned = FALSE
    /\ lastStep = NoStep

\* The model ids the concurrent handler is created for.
SessionIds ==
    {<<"o", "l", "l", "a", "m", "a", "/", "m">>,
     <<"l", "m", "s", "t", "u", "d", "i", "o", "/", "m">>,
     <<"m">>}

----------------------------------------------------------------------------
(* The usage records of message_start and message_delta *)

Calls == 1..MaxCalls

\* A usage record; ephemeral_5m_input_tokens is -1 when the cache_creation
\* object is not part of it.
UsageRecord(input, output, creation, read, ephemeral) ==
    [input_tokens |-> input, output_tokens |-> output,
     cache_creation_input_tokens |-> creation,
     cache_read_input_tokens |-> read,
     ephemeral_5m_input_tokens |-> ephemeral]

\* The usage of message_start.
StartUsage == UsageRecord(0, 0, 0, 0, -1)

\* The usage of message_delta: output_tokens and the spread cache metrics.
DeltaUsage(inputTokens, outputTokens, metrics) ==
    UsageRecord(inputTokens, outputTokens,
                metrics.cache_creation_input_tokens,
                metrics.cache_read_input_tokens,
                metrics.ephemeral_5m_input_tokens)

\* A request: its conversation key and cacheable tokens, the usage its
\* message_start and message_delta carried, and the time of its lookup.
NoCall ==
    [pc |-> "new", key |-> "k1", tokens |-> 0, start |-> StartUsage,
     final |-> StartUsage, at |-> 0, nth |-> 0]

\* message_start is written for a request.
MessageStartSent(r, key, cacheableTokens) ==
    /\ call[r].pc = "new"
    /\ \A q \in Calls : q < r => call[q].pc # "new"
    /\ call' = [call EXCEPT ![r] = [@ EXCEPT !.pc = "open", !.key = key,
                                             !.tokens = cacheableTokens,
                                             !.start = StartUsage]]
    /\ lastOp' = "start"
    /\ lastReq' = NoReq
    /\ swept' = NoSweep
    /\ UNCHANGED <<conversationState, now, nreq, seen>>
    /\ StreamStutter
    /\ UNCHANGED <<registryVars, handlerVars, sessionVars>>

\* The stream of a request terminates: getCacheMetrics is called and
\* message_delta is written with its result.
MessageDeltaSent(r, inputTokens, outputTokens) ==
    /\ call[r].pc = "open"
    /\ CacheLookup(call[r].key, call[r].tokens)
    /\ LET m == getCacheMetrics(conversationState, call[r].key, call[r].tokens, now)
       IN  call' = [call EXCEPT ![r] =
                       [@ EXCEPT !.pc = "done",
                                 !.final = DeltaUsage(inputTokens, outputTokens, m),
                                 !.at = now,
                                 !.nth = nreq + 1]]
    /\ StreamStutter
    /\ UNCHANGED <<registryVars, handlerVars, sessionVars>>

UsageIdle == call = [r \in Calls |-> NoCall]

InitStream ==
    /\ policy \in Policies
    /\ StreamIdle
    /\ CacheIdle
    /\ RegistryIdle
    /\ HandlerIdle
    /\ SessionIdle
    /\ UsageIdle

NextStream ==
    \/ Start
    \/ \E c \in Chunks : Chunk(c)
    \/ Done
    \/ EndOfStream
    \/ Disconnect
    \/ PingTick
    \/ StreamError

SpecStream == InitStream /\ [][NextStream]_vars

InitCache ==
    /\ policy = "as_text"
    /\ StreamIdle
    /\ CacheIdle
    /\ RegistryIdle
    /\ HandlerIdle
    /\ SessionIdle
    /\ UsageIdle

NextCache ==
    \/ \E k \in Keys, c \in TokenCounts : CacheRequest(k, c)
    \/ Sweep
    \/ Tick

SpecCache == InitCache /\ [][NextCache]_vars

\* The registry functions on one model id and one environment.
InitRegistry ==
    /\ policy = "as_text"
    /\ StreamIdle
    /\ CacheIdle
    /\ HandlerIdle
    /\ SessionIdle
    /\ UsageIdle
    /\ modelId \in ModelIds
    /\ CLAUDISH_BASE_URL \in BaseUrlSettings
    /\ route = NoRoute

NextRegistry == Resolve

SpecRegistry == InitRegistry /\ [][NextRegistry]_vars

\* One handler, constructed for a resolved model id, serving requests.
InitHandler ==
    /\ policy = "as_text"
    /\ StreamIdle
    /\ CacheIdle
    /\ RegistryIdle
    /\ SessionIdle
    /\ UsageIdle
    /\ \E id \in HandlerIds :
          /\ provider = selectHandler(id, HandlerBaseUrl).provider
          /\ modelName = selectHandler(id, HandlerBaseUrl).modelName
    /\ apiKeys \in ApiKeySettings
    /\ provider.apiKeyEnvVar = "" => apiKeys.own = ""
    /\ healthChecked = FALSE
    /\ isHealthy = FALSE
    /\ contextWindow = DefaultContextWindow
    /\ hpc = "idle"
    /\ nhandled = 0
    /\ lastHandle = NoHandle

NextHandler ==
    \/ \E req \in Requests, net \in Networks :
          Relevant(net) /\ HandleRequest(req, net)
    \/ \E chat \in ChatOutcomes : HandleReply(chat)

SpecHandler == InitHandler /\ [][NextHandler]_vars

\* One handler serving concurrent requests.
InitSession ==
    /\ policy = "as_text"
    /\ StreamIdle
    /\ CacheIdle
    /\ RegistryIdle
    /\ SessionIdle
    /\ UsageIdle
    /\ \E id \in SessionIds :
          /\ provider = selectHandler(id, HandlerBaseUrl).provider
          /\ modelName = selectHandler(id, HandlerBaseUrl).modelName
    /\ apiKeys = [own |-> "", local |-> ""]
    /\ healthChecked = FALSE
    /\ isHealthy = FALSE
    /\ contextWindow = DefaultContextWindow
    /\ hpc = "idle"
    /\ nhandled = 0
    /\ lastHandle = NoHandle

NextSession ==
    \/ \E t \in Tasks : Arrive(t)
    \/ \E t \in Tasks, o \in ProbeOutcomes : TagsSettled(t, o)
    \/ \E t \in Tasks, o \in ProbeOutcomes : ModelsSettled(t, o)
    \/ \E t \in Tasks, o \in ShowOutcomes : ShowSettled(t, o)
    \/ \E t \in Tasks, ok \in BOOLEAN : ChatSettled(t, ok)
    \/ \E t \in Tasks : StreamDelta(t)
    \/ \E t \in Tasks, r \in UsageReports, fails \in BOOLEAN : Usage(t, r, fails)
    \/ \E t \in Tasks : StreamEnd(t)

SpecSession == InitSession /\ [][NextSession]_vars

\* Concurrent requests, each with its message_start and message_delta, on
\* the process-wide cache with its clock and its sweep.
InitUsage ==
    /\ policy = "as_text"
    /\ StreamIdle
    /\ CacheIdle
    /\ RegistryIdle
    /\ HandlerIdle
    /\ SessionIdle
    /\ UsageIdle

NextUsage ==
    \/ \E r \in Calls, k \in Keys, c \in TokenCounts : MessageStartSent(r, k, c)
    \/ \E r \in Calls : MessageDeltaSent(r, 10, 1)
    \/ Sweep
    \/ Tick

SpecUsage == InitUsage /\ [][NextUsage]_vars

----------------------------------------------------------------------------
(* Reading the emitted stream *)

Pos(type) == {j \in 1..Len(events) : events[j].type = type}
Count(type) == Cardinality(Pos(type))
StartPos(i) == {j \in Pos("content_block_start") : events[j].index = i}
StopPos(i) == {j \in Pos("content_block_stop") : events[j].index = i}
DeltaPos(i) == {j \in Pos("content_block_delta") : events[j].index = i}
StartedIndices == {events[j].index : j \in Pos("content_block_start")}
UsedIndices ==
    {events[j].index :
        j \in Pos("content_block_start") \cup Pos("content_block_delta")
              \cup Pos("content_block_stop")}

\* The partial_json fragments emitted on block i among the first n events,
\* concatenated in emission order.
RECURSIVE PartialJson(_, _)
PartialJson(i, n) ==
    IF n = 0 THEN <<>>
    ELSE PartialJson(i, n - 1) \o
         (IF /\ events[n].type = "content_block_delta"
             /\ events[n].kind = "input_json_delta"
             /\ events[n].index = i
          THEN events[n].payload ELSE <<>>)

\* The backend stream is over and the client stayed connected.
StreamOver == pc = "ended" /\ ~disconnected

----------------------------------------------------------------------------
(* Claims about the streaming state machine (SpecStream) *)

\* C1: once the backend stream is over (by finish_reason, by [DONE], by both,
\* or by simply ending) the emitted sequence begins with exactly one
\* message_start and ends with exactly one message_stop; nothing follows
\* message_stop.
C1_FramedStream ==
    /\ \A j \in Pos("message_stop") : j = Len(events)
    /\ StreamOver =>
          /\ Len(events) >= 1
          /\ events[1] = MessageStart
          /\ events[Len(events)] = MessageStop
          /\ Count("message_start") = 1
          /\ Count("message_stop") = 1

\* C2: every content_block_start(i) is followed by exactly one
\* content_block_stop(i), and every delta on i lies strictly between them.
C2_BlocksPaired ==
    /\ \A i \in UsedIndices :
          /\ Cardinality(StartPos(i)) = 1
          /\ Cardinality(StopPos(i)) <= 1
          /\ \A b \in StartPos(i) :
                /\ \A d \in DeltaPos(i) : b < d
                /\ \A e \in StopPos(i) : b < e
          /\ \A d \in DeltaPos(i) : \A e \in StopPos(i) : d < e
    /\ StreamOver => \A i \in StartedIndices : Cardinality(StopPos(i)) = 1

\* C3: the indices of the content_block_start events are 0, 1, ..., k-1 in
\* emission order.
C3_SequentialIndices ==
    \A j \in Pos("content_block_start") :
        events[j].index =
            Cardinality({k \in Pos("content_block_start") : k < j})

C3_Witness ==
    /\ Count("content_block_start") >= 3
    /\ {"text", "tool_use", "thinking"} \subseteq
           {events[j].kind : j \in Pos("content_block_start")}

\* C4: at most one content block is open at any time: when a block is
\* started every block started before it has been stopped, and a delta
\* always belongs to the block started last.
C4_OneOpenBlock ==
    /\ \A j \in Pos("content_block_start") :
          \A k \in Pos("content_block_start") :
              k < j => \E e \in StopPos(events[k].index) : k < e /\ e < j
    /\ \A d \in Pos("content_block_delta") :
          \A k \in Pos("content_block_start") :
              (k < d /\ events[k].index # events[d].index) =>
                  \E e \in StopPos(events[k].index) : e < d

\* C5: for every tool slot the partial_json deltas emitted on its block,
\* concatenated in emission order, equal the slot's accumulated arguments
\* (arg_chars); no input_json_delta is emitted on any other block.
C5_ArgsPreserved ==
    /\ \A s \in Slots :
          tool_blocks[s].started =>
              PartialJson(tool_blocks[s].block_index, Len(events))
                  = tool_blocks[s].arg_chars
    /\ \A d \in Pos("content_block_delta") :
          events[d].kind = "input_json_delta" =>
              \E s \in Slots : /\ tool_blocks[s].started
                               /\ tool_blocks[s].block_index = events[d].index

C5_Witness ==
    /\ \E s \in Slots : Len(tool_blocks[s].arg_chars) >= 2
    /\ \A s \in Slots : Len(tool_blocks[s].arg_chars) >= 1
    /\ Count("content_block_delta") >= 3

\* The mapping as the claim states it.
claimedStopReason(finishReason) ==
    CASE finishReason = "stop" -> "end_turn"
      [] finishReason = "length" -> "max_tokens"
      [] finishReason \in {"tool_calls", "function_call"} -> "tool_use"
      [] finishReason = "content_filter" -> "stop_sequence"
      [] OTHER -> "end_turn"

\* C6: every message_delta carries a stop_reason of the four allowed values,
\* obtained from the finish_reason that ended the stream by: stop -> end_turn,
\* length -> max_tokens, tool_calls or function_call -> tool_use,
\* content_filter -> stop_sequence, anything else or [DONE] alone -> end_turn.
C6_StopReasonMapped ==
    \A j \in Pos("message_delta") :
        /\ events[j].kind \in StopReasons
        /\ events[j].kind = claimedStopReason(termBy)

\* C7: once the client disconnect has been observed, no event of any kind is
\* written, whatever the chunk loop and the ping timer do next.
C7_NoWriteAfterDisconnect ==
    [][disconnected => (events' = events /\ isClosed')]_vars

\* A timer tick fired after the disconnect (it wrote nothing), and a block
\* was open at the disconnect and is left without its stop.
C7_Witness ==
    /\ disconnected
    /\ npings >= 1
    /\ Count("ping") = 0
    /\ \E i \in StartedIndices : StopPos(i) = {}

\* C8: termination is idempotent: after a finish chunk has produced the block
\* stops, message_delta and message_stop, a later [DONE] or finish chunk
\* emits nothing; no block has two stops, message_delta and message_stop
\* occur once, and message_stop stays the last event.
C8_TerminationIdempotent ==
    /\ Count("message_delta") <= 1
    /\ Count("message_stop") <= 1
    /\ \A i \in UsedIndices : Cardinality(StopPos(i)) <= 1
    /\ termBy # "" =>
          /\ Count("message_delta") = 1
          /\ events[Len(events)] = MessageStop

C8_Witness ==
    /\ termBy \in FinishReasons
    /\ lateTerm
    /\ \E s \in Slots : tool_blocks[s].closed
    /\ Count("content_block_stop") >= 2

----------------------------------------------------------------------------
(* Claims about the conversation cache (SpecCache) *)

CreateSplit(r) ==
    /\ r.cache_creation_input_tokens = r.tokens
    /\ r.cache_read_input_tokens = 0

ReadSplit(r) ==
    /\ r.cache_read_input_tokens = r.tokens
    /\ r.cache_creation_input_tokens = 0

C10_SweepExact ==
    lastOp = "sweep" =>
        \A k \in Keys :
            /\ conversationState[k].present =>
                  now - conversationState[k].lastCacheTimestamp <= MAX_AGE
            /\ (swept[k].present /\ now - swept[k].lastCacheTimestamp <= MAX_AGE)
                  => conversationState[k] = swept[k]

\* A sweep that removed one entry and kept another one that is past the TTL.
C10_Witness ==
    /\ lastOp = "sweep"
    /\ \E k \in Keys : swept[k].present /\ ~conversationState[k].present
    /\ \E k \in Keys :
          /\ conversationState[k].present
          /\ now - conversationState[k].lastCacheTimestamp > CACHE_TTL

----------------------------------------------------------------------------
(* Claims about the provider registry (SpecRegistry) *)

\* The registered prefixes and their providers, as the claim lists them.
ClaimedPrefixes ==
    {[name |-> "ollama", prefix |-> <<"o", "l", "l", "a", "m", "a", "/">>],
     [name |-> "ollama", prefix |-> <<"o", "l", "l", "a", "m", "a", ":">>],
     [name |-> "lmstudio", prefix |-> <<"l", "m", "s", "t", "u", "d", "i", "o", "/">>],
     [name |-> "lmstudio", prefix |-> <<"l", "m", "s", "t", "u", "d", "i", "o", ":">>],
     [name |-> "lmstudio", prefix |-> <<"m", "l", "s", "t", "u", "d", "i", "o", "/">>],
     [name |-> "lmstudio", prefix |-> <<"m", "l", "s", "t", "u", "d", "i", "o", ":">>],
     [name |-> "vllm", prefix |-> <<"v", "l", "l", "m", "/">>],
     [name |-> "vllm", prefix |-> <<"v", "l", "l", "m", ":">>],
     [name |-> "mlx", prefix |-> <<"m", "l", "x", "/">>],
     [name |-> "mlx", prefix |-> <<"m", "l", "x", ":">>]}

NoClaimedPrefix == \A cp \in ClaimedPrefixes : ~startsWith(modelId, cp.prefix)

\* C11: a model id that starts with a registered prefix resolves to that
\* prefix's provider and to the id with exactly that prefix removed; an id
\* that starts with no registered prefix resolves to null.
C11_PrefixResolved ==
    route.done =>
        /\ \A cp \in ClaimedPrefixes :
              startsWith(modelId, cp.prefix) =>
                  /\ route.resolved.found
                  /\ route.resolved.provider.name = cp.name
                  /\ cp.prefix \o route.resolved.modelName = modelId
        /\ NoClaimedPrefix => ~route.resolved.found

\* The alias prefix mlstudio: with a name that itself holds a separator.
C11_Witness ==
    /\ route.done
    /\ route.resolved.found
    /\ route.resolved.provider.name = "lmstudio"
    /\ startsWith(modelId, <<"m", "l", "s", "t", "u", "d", "i", "o", ":">>)
    /\ Len(route.resolved.modelName) = 3

\* An absolute http(s) URL: the scheme and a host.
IsAbsoluteUrl(id) ==
    /\ startsWith(id, http) \/ startsWith(id, https)
    /\ parseURL(id).ok

\* The URL has a path segment that is not empty.
HasPathSegment(id) ==
    /\ IsAbsoluteUrl(id)
    /\ \E i \in 1..Len(parseURL(id).pathname) : parseURL(id).pathname[i] # "/"

Configured == CLAUDISH_BASE_URL.set /\ CLAUDISH_BASE_URL.value # <<>>

\* C12 as stated: the id goes to the hosted aggregator exactly when it has no
\* registered prefix, is no absolute http(s) URL and no custom base URL is
\* configured; a prefix match wins over a configured custom base URL.
C12_HostedExactly ==
    route.done =>
        /\ (route.handler.kind = "hosted")
              <=> (NoClaimedPrefix /\ ~IsAbsoluteUrl(modelId) /\ ~Configured)
        /\ route.isLocal <=> ~(NoClaimedPrefix /\ ~IsAbsoluteUrl(modelId) /\ ~Configured)
        /\ ~NoClaimedPrefix => route.handler.kind = "prefix"

\* C12, amended: the id goes to the hosted aggregator (isLocalProvider is
\* false) exactly when it has no registered prefix, is no absolute http(s)
\* URL with a non-empty path segment, and no custom base URL is configured;
\* a prefix match wins over a configured custom base URL.
C12_HostedExactlyAmended ==
    route.done =>
        /\ (route.handler.kind = "hosted")
              <=> (NoClaimedPrefix /\ ~HasPathSegment(modelId) /\ ~Configured)
        /\ route.isLocal <=> ~(NoClaimedPrefix /\ ~HasPathSegment(modelId) /\ ~Configured)
        /\ ~NoClaimedPrefix => route.handler.kind = "prefix"

\* A URL without a path segment, and no custom base URL: hosted.
C12_Witness ==
    /\ route.done
    /\ route.handler.kind = "hosted"
    /\ ~route.isLocal
    /\ IsAbsoluteUrl(modelId)

RECURSIVE collapseSlashes(_)
\* The path with every run of "/" reduced to one and no "/" at its end.
collapseSlashes(path) ==
    IF path = <<>> THEN <<>>
    ELSE IF path[1] = "/" /\ (Len(path) = 1 \/ path[2] = "/")
    THEN collapseSlashes(Tail(path))
    ELSE <<path[1]>> \o collapseSlashes(Tail(path))

\* Scheme, host and path segments of the URL, with single separators.
NormalUrl(id) ==
    LET url == parseURL(id)
    IN  url.protocol \o <<"/", "/">> \o url.host \o collapseSlashes(url.pathname)

\* The ad-hoc provider of a URL id: the last path segment is the model name,
\* what precedes it the base URL.
UrlResolved ==
    /\ route.parsed.found
    /\ route.parsed.modelName # <<>>
    /\ \A i \in 1..Len(route.parsed.modelName) : route.parsed.modelName[i] # "/"
    /\ route.parsed.baseUrl \o <<"/">> \o route.parsed.modelName = NormalUrl(modelId)
    /\ route.handler.kind = "url"
    /\ route.handler.provider.name = "custom-url"
    /\ route.handler.provider.baseUrl = route.parsed.baseUrl
    /\ route.handler.modelName = route.parsed.modelName

\* C13 as stated: every absolute http(s) URL resolves to an ad-hoc provider
\* with the last path segment as model name and the rest as base URL.
C13_UrlResolved ==
    (route.done /\ IsAbsoluteUrl(modelId)) => UrlResolved

\* C13, amended: every absolute http(s) URL that has a non-empty path segment
\* resolves to an ad-hoc provider with the last path segment as model name
\* and scheme, host and the segments before it as base URL; a URL without a
\* path segment is not parsed (null).
C13_UrlResolvedAmended ==
    route.done =>
        /\ HasPathSegment(modelId) => UrlResolved
        /\ (IsAbsoluteUrl(modelId) /\ ~HasPathSegment(modelId)) => ~route.parsed.found

\* A URL with a port, two segments before the model name and repeated
\* separators.
C13_Witness ==
    /\ route.done
    /\ route.parsed.found
    /\ modelId = <<"h", "t", "t", "p", "s", ":", "/", "/", "h", ":", "1", "/", "/", "v", "/", "/", "m">>
    /\ route.parsed.baseUrl = <<"h", "t", "t", "p", "s", ":", "/", "/", "h", ":", "1", "/", "v">>

----------------------------------------------------------------------------
(* Claims about the local-provider handler (SpecHandler) *)

ConnectionError(reply) ==
    /\ reply.kind = "json"
    /\ reply.type = "connection_error"

\* C14: on the first request, when the health probe does not succeed the
\* reply is a JSON error of type connection_error and no chat-completions
\* request is sent.
C14_HealthGate ==
    (lastHandle.first /\ healthChecked /\ ~isHealthy) =>
        /\ hpc = "idle"
        /\ lastHandle.sent = <<>>
        /\ ConnectionError(lastHandle.reply)

\* Both probes were rejected.
C14_Witness ==
    /\ lastHandle.first
    /\ ~isHealthy
    /\ lastHandle.probes = <<"/api/tags", "/v1/models">>
    /\ ConnectionError(lastHandle.reply)
    /\ lastHandle.request.tools # <<>>

\* C15: whenever the /api/tags probe does not return OK (non-2xx, timeout or
\* connection failure) the /v1/models probe is tried, and the provider is
\* unhealthy only if neither probe returned OK.
C15_BothProbesTried ==
    (lastHandle.first /\ lastHandle.probes # <<>> /\ lastHandle.net.tags # "ok") =>
        /\ lastHandle.probes[1] = "/api/tags"
        /\ Len(lastHandle.probes) >= 2
        /\ lastHandle.probes[2] = "/v1/models"
        /\ isHealthy <=> lastHandle.net.models = "ok"

\* C16: with supportsTools = false and tools declared by the client, the
\* outbound payload has no tools field and no tool_choice field, whatever the
\* client's tool_choice.
C16_ToolsStripped ==
    (/\ ~provider.capabilities.supportsTools
     /\ lastHandle.request.tools # <<>>) =>
        \A i \in 1..Len(lastHandle.sent) :
            /\ ~lastHandle.sent[i].body.has_tools
            /\ lastHandle.sent[i].body.tools = <<>>
            /\ lastHandle.sent[i].body.tool_choice = NoChoice

C16_Witness ==
    /\ hpc = "awaiting"
    /\ ~provider.capabilities.supportsTools
    /\ lastHandle.request.tools # <<>>
    /\ lastHandle.request.tool_choice = [type |-> "tool", name |-> "t"]
    /\ Len(lastHandle.sent) = 1

SaysModelNotFound(text) ==
    /\ includes(text, w_model)
    /\ includes(text, w_not_found) \/ includes(text, w_does_not_exist)

SaysNoTools(text) ==
    \/ includes(text, w_does_not_support_tools)
    \/ includes(text, w_tool) /\ includes(text, w_not_supported)

ModelNotFound(reply) ==
    /\ reply.kind = "json"
    /\ reply.type = "model_not_found"
    /\ reply.message.template = "Model '{modelName}' not found. {hint}"
    /\ reply.message.modelName = modelName
    /\ reply.message.hint =
          IF provider.name = "ollama" THEN "Pull it with: ollama pull {modelName}"
          ELSE "Make sure the model is available on the server."

\* C17 as stated: every non-2xx response whose body text says that the model
\* was not found is answered with model_not_found and the pull hint, before
\* the capability and api_error mappings.
C17_ModelNotFound ==
    (/\ lastHandle.chat.kind = "status"
     /\ SaysModelNotFound(rawText(lastHandle.chat.body))) =>
        ModelNotFound(lastHandle.reply)

\* C17, amended: every non-2xx response whose body is JSON and whose message
\* (error.message, else error when it is a string, else the body) says that
\* the model was not found is answered with model_not_found and the pull
\* hint, before the capability and api_error mappings; a body that is not
\* JSON, or whose error is an object without message, is an api_error even
\* when its text says so.
C17_ModelNotFoundAmended ==
    lastHandle.chat.kind = "status" =>
        /\ (/\ lastHandle.chat.body.kind \in {"error.message", "error", "message"}
            /\ SaysModelNotFound(lastHandle.chat.body.text))
              => ModelNotFound(lastHandle.reply)
        /\ lastHandle.chat.body.kind \in {"text", "error.code"}
              => lastHandle.reply.type = "api_error"

\* The message names the model as not found and tools as not supported.
C17_Witness ==
    /\ lastHandle.chat.kind = "status"
    /\ lastHandle.chat.body.kind = "error.message"
    /\ SaysModelNotFound(lastHandle.chat.body.text)
    /\ SaysNoTools(lastHandle.chat.body.text)
    /\ ModelNotFound(lastHandle.reply)
    /\ provider.name = "ollama"

\* C18: a non-2xx response that is neither model-not-found nor a
\* tool-capability error, bodies that are not JSON or have no message string
\* included, is answered with {error: {type: api_error, message}} and the
\* backend's status.
C18_ApiErrorKeepsStatus ==
    lastHandle.chat.kind = "status" =>
        /\ lastHandle.reply.kind = "json"
        /\ lastHandle.reply.type \in {"model_not_found", "capability_error", "api_error"}
        /\ lastHandle.reply.type = "api_error" =>
              /\ lastHandle.reply.status = lastHandle.chat.status
              /\ lastHandle.reply.message.template = "{verbatim}"
              /\ lastHandle.reply.message.verbatim \in
                    {lastHandle.chat.body.text, rawText(lastHandle.chat.body)}
        /\ (\/ lastHandle.chat.body.kind \in {"text", "error.code"}
            \/ /\ ~SaysModelNotFound(lastHandle.chat.body.text)
               /\ ~SaysNoTools(lastHandle.chat.body.text))
              => lastHandle.reply.type = "api_error"

\* A 502 whose body is not JSON.
C18_Witness ==
    /\ lastHandle.chat.kind = "status"
    /\ lastHandle.chat.status = 502
    /\ lastHandle.chat.body.kind = "text"
    /\ lastHandle.chat.body.text # <<>>
    /\ lastHandle.reply.type = "api_error"
    /\ lastHandle.reply.status = 502

\* C19: every error answered before any stream event is a JSON body
\* {error: {type, message}} with a status among 400, 401, 404, 429, 503, 500.
C19_ErrorStatusInSet ==
    lastHandle.reply.kind = "json" =>
        /\ lastHandle.reply.type # ""
        /\ lastHandle.reply.message # NoMessage
        /\ lastHandle.reply.status \in {400, 401, 404, 429, 503, 500}

\* C20: the upstream request has an Authorization header exactly when an API
\* key is configured: the provider's own key if set, else
\* CLAUDISH_LOCAL_API_KEY, and none when neither is set.
C20_AuthorizationHeader ==
    \A i \in 1..Len(lastHandle.sent) :
        LET headers == lastHandle.sent[i].headers
            key == IF apiKeys.own # "" THEN apiKeys.own ELSE apiKeys.local
        IN  /\ ("Authorization" \in DOMAIN headers) <=> (key # "")
            /\ key # "" => headers["Authorization"] = key


\* C21: the stream flag of the outbound payload equals the stream flag of the
\* client's request, for stream = true and for stream = false.
C21_StreamFlagForwarded ==
    \A i \in 1..Len(lastHandle.sent) :
        lastHandle.sent[i].body.stream = lastHandle.request.stream

\* C22: when tools are sent, tool_choice auto and none pass through,
\* {type: tool, name} becomes {type: function, function: {name}}, and every
\* tool_choice of the client has a tool_choice in the outbound payload.
C22_ToolChoiceTranslated ==
    \A i \in 1..Len(lastHandle.sent) :
        LET choice == lastHandle.request.tool_choice
            out == lastHandle.sent[i].body.tool_choice
        IN  lastHandle.sent[i].body.has_tools =>
                /\ choice.type \in {"auto", "none"} =>
                      out = [type |-> choice.type, name |-> ""]
                /\ (choice.type = "tool" /\ choice.name # "") =>
                      out = [type |-> "function", name |-> choice.name]
                /\ (choice # NoChoice /\ ~(choice.type = "tool" /\ choice.name = ""))
                      => out # NoChoice


\* The name a connection message gives the provider.
ProviderLabel(name) ==
    CASE name = "ollama" -> "Ollama"
      [] name = "lmstudio" -> "LM Studio"
      [] name = "vllm" -> "vLLM"
      [] OTHER -> name

\* The command to start the server that a hint of the handler gives, "" if
\* it gives none.
StartCommand(hint) ==
    CASE hint = "Make sure Ollama is running with: ollama serve" -> "ollama serve"
      [] OTHER -> ""

NamesProviderAndUrl(reply) ==
    /\ reply.message.template = "Cannot connect to {label} at {baseUrl}. {hint}"
    /\ reply.message.label = ProviderLabel(provider.name)
    /\ reply.message.baseUrl = provider.baseUrl

\* C28 as stated: for every provider the connection_error message names the
\* provider, its base URL and the provider's start command.
C28_ConnectionMessage ==
    ConnectionError(lastHandle.reply) =>
        /\ NamesProviderAndUrl(lastHandle.reply)
        /\ StartCommand(lastHandle.reply.message.hint) # ""

\* C28, amended: for every provider the connection_error message names the
\* provider and its base URL; it gives a start command (ollama serve) for
\* ollama only, and asks to make sure the server is running for the others.
C28_ConnectionMessageAmended ==
    ConnectionError(lastHandle.reply) =>
        /\ NamesProviderAndUrl(lastHandle.reply)
        /\ provider.name = "ollama" =>
              StartCommand(lastHandle.reply.message.hint) = "ollama serve"
        /\ provider.name # "ollama" =>
              StartCommand(lastHandle.reply.message.hint) = ""

\* The chat-completions fetch of a healthy LM Studio was refused.
C28_Witness ==
    /\ ConnectionError(lastHandle.reply)
    /\ lastHandle.chat.kind = "refused"
    /\ isHealthy
    /\ lastHandle.reply.message.label = "LM Studio"
    /\ lastHandle.reply.message.baseUrl = provider.baseUrl
    /\ Len(provider.baseUrl) > 0


----------------------------------------------------------------------------
(* Claims about reasoning, errors and tool arguments (SpecStream) *)

\* The fragments carried by the deltas of one kind among the first n events,
\* in emission order.
RECURSIVE Fragments(_, _)
Fragments(kind, n) ==
    IF n = 0 THEN <<>>
    ELSE Fragments(kind, n - 1) \o
         (IF events[n].type = "content_block_delta" /\ events[n].kind = kind
          THEN <<events[n].payload>> ELSE <<>>)

PureReasoning(c) ==
    c.content = NoText /\ c.reasoning # NoText /\ c.tool_calls = <<>> /\ c.finish = ""
PureContent(c) ==
    c.content # NoText /\ c.reasoning = NoText /\ c.tool_calls = <<>>

\* The backend sent reasoning-only chunks and then one chunk with content.
ReasoningThenContent ==
    /\ Len(fed) >= 2
    /\ \A k \in 1..(Len(fed) - 1) : PureReasoning(fed[k])
    /\ PureContent(fed[Len(fed)])

KindStarts(kind) == {j \in Pos("content_block_start") : events[j].kind = kind}

\* The reasoning fragments that the backend sent with empty content.
RECURSIVE ReasoningFed(_)
ReasoningFed(n) ==
    IF n = 0 THEN <<>>
    ELSE ReasoningFed(n - 1) \o
         (IF fed[n].content = NoText /\ fed[n].reasoning # NoText
          THEN <<fed[n].reasoning>> ELSE <<>>)

\* The content fragments that the backend sent.
RECURSIVE ContentFed(_)
ContentFed(n) ==
    IF n = 0 THEN <<>>
    ELSE ContentFed(n - 1) \o
         (IF fed[n].content # NoText THEN <<fed[n].content>> ELSE <<>>)

FinishOf(by) == IF by = "[DONE]" THEN "" ELSE by

----------------------------------------------------------------------------
(* Claims about concurrent requests and the token file (SpecSession) *)

\* C29: the context window is 8192 unless the provider is Ollama and an
\* /api/show probe returned a context length. For another provider it stays
\* 8192; a probe that failed or timed out, with no probe having returned a
\* length, leaves 8192; a response with neither general.context_length nor
\* num_ctx sets 8192; and the status file written then reports 8192.
C29_DefaultContextWindow ==
    /\ contextWindow # 8192 => (provider.name = "ollama" /\ learned)
    /\ (lastStep.kind = "show" /\ lastStep.show.kind = "none")
          => contextWindow = 8192
    /\ (lastStep.kind = "show" /\ lastStep.show.kind \in {"info", "params"})
          => contextWindow = lastStep.show.ctx
    /\ (lastStep.kind = "usage" /\ ~(provider.name = "ollama" /\ learned))
          => tokenFile.context_window = 8192
    /\ (tokenFile.written /\ tokenFile.context_window # 8192)
          => (provider.name = "ollama" /\ learned)

\* For Ollama, every request is past its probes, none of which returned a
\* context length, and a status file reporting 8192 is written.
C29_Witness ==
    /\ provider.name = "ollama"
    /\ lastStep.kind = "usage"
    /\ tokenFile.context_window = 8192
    /\ ~learned
    /\ \A t \in Tasks : task[t].pc \in {"awaiting", "streaming", "done"}


RECURSIVE SumOf(_, _)
SumOf(seq, k) == IF seq = <<>> THEN 0 ELSE seq[1][k] + SumOf(Tail(seq), k)

\* n is (cw - total) / cw * 100 rounded to the nearest integer, halves up.
IsRounded(n, cw, total) ==
    /\ (2 * n - 1) * cw <= 200 * (cw - total)
    /\ 200 * (cw - total) < (2 * n + 1) * cw

\* The reports up to the last one whose write succeeded.
WrittenReports ==
    LET ks == {k \in 1..Len(reports) : reports[k][3]}
    IN  IF ks = {} THEN <<>>
        ELSE SubSeq(reports, 1, CHOOSE k \in ks : \A j \in ks : j <= k)

\* C24: after the usage reports (i_1,o_1)..(i_n,o_n), the last of them
\* written, the status file holds input_tokens = sum of i_k, output_tokens =
\* sum of o_k, total_tokens their sum, total_cost 0, the handler's context
\* window as of that report, and context_left_percent =
\* round((context_window - total_tokens) / context_window * 100) clamped to
\* 0..100.
C24_TokenFileTotals ==
    /\ tokenFile.written <=> WrittenReports # <<>>
    /\ tokenFile.written =>
          /\ tokenFile.input_tokens = SumOf(WrittenReports, 1)
          /\ tokenFile.output_tokens = SumOf(WrittenReports, 2)
          /\ tokenFile.total_tokens = tokenFile.input_tokens + tokenFile.output_tokens
          /\ tokenFile.total_cost = 0
          /\ tokenFile.context_left_percent \in 0..100
          /\ LET cw == tokenFile.context_window
                 total == tokenFile.total_tokens
                 pct == tokenFile.context_left_percent
             IN  \/ pct \in 1..99 /\ IsRounded(pct, cw, total)
                 \/ pct = 0 /\ 200 * (cw - total) < cw
                 \/ pct = 100 /\ 200 * (cw - total) >= 199 * cw
    /\ lastStep.kind = "usage" =>
          /\ WrittenReports = reports
          /\ tokenFile.context_window = contextWindow

\* Two reports have been written, the second one taking the total past the
\* context window: the percentage is clamped to 0.
C24_Witness ==
    /\ lastStep.kind = "usage"
    /\ Len(reports) = 2
    /\ reports[1][1] + reports[1][2] < contextWindow
    /\ tokenFile.total_tokens > tokenFile.context_window
    /\ tokenFile.context_left_percent = 0

\* A report has been written whose percentage lies exactly between two
\* integers and is rounded up.
C24_WitnessHalf ==
    /\ lastStep.kind = "usage"
    /\ tokenFile.total_tokens = 1024
    /\ tokenFile.context_window = 8192
    /\ tokenFile.context_left_percent = 88


\* Request u is starting: its handle call has not reached the upstream fetch.
Starting(u) == task[u].pc \in {"new", "tags", "models", "show"}

\* Request u takes the step.
StepOf(u) == lastStep'.task = u

\* No step of a starting request changes the context window while an earlier
\* request is streaming.
C23_ContextWindowStable ==
    [][\A t, u \in Tasks :
          (t < u /\ task[t].pc = "streaming" /\ Starting(u) /\ StepOf(u))
             => contextWindow' = contextWindow]_vars

\* C23: concurrent requests of one handler share no mutable state but the
\* conversation cache and the session totals: no step of a starting second
\* request changes the adapter state or the context window that the stream
\* translation of an in-flight first request reads.
C23_NoSharedState ==
    [][\A t, u \in Tasks :
          (t < u /\ task[t].pc = "streaming" /\ Starting(u) /\ StepOf(u))
             => (adapter' = adapter /\ contextWindow' = contextWindow)]_vars


----------------------------------------------------------------------------
(* Claims about the ping timer and the usage records (SpecStream) *)

\* Every ping is written after message_start and before any message_stop.
PingsInsideMessage ==
    \A j \in Pos("ping") :
        /\ \E i \in Pos("message_start") : i < j
        /\ \A k \in Pos("message_stop") : j < k

\* The stream has left through one of its exits: termination, an error, or
\* the end of the read loop (which a disconnect leads to).
StreamExited ==
    pc = "ended" \/ Pos("message_stop") # {} \/ Pos("error") # {}

----------------------------------------------------------------------------
(* Claims about changed content, usage fields and concurrent lookups
   (SpecCache, SpecUsage, SpecLookup) *)

\* The entry of key k is there and not older than the TTL.
FreshEntry(k) ==
    /\ conversationState[k].present
    /\ now - conversationState[k].lastCacheTimestamp <= CACHE_TTL

\* C32: a request that finds a fresh entry for its key whose cacheable
\* tokens differ from its own is a create turn: cache_creation_input_tokens
\* is the new count, cache_read_input_tokens is 0, and the entry becomes
\* {new count, now, turn 1}.
C32_ChangedContentCreates ==
    [][\A k \in Keys :
          (/\ FreshEntry(k)
           /\ nreq' = nreq + 1
           /\ lastReq'.key = k
           /\ lastReq'.tokens # conversationState[k].cacheableTokens)
             => /\ CreateSplit(lastReq')
                /\ conversationState'[k] =
                      [present |-> TRUE,
                       cacheableTokens |-> lastReq'.tokens,
                       lastCacheTimestamp |-> now,
                       messageCount |-> 1]]_vars


\* All four fields of a usage record are zero.
ZeroUsage(u) ==
    /\ u.input_tokens = 0
    /\ u.output_tokens = 0
    /\ u.cache_creation_input_tokens = 0
    /\ u.cache_read_input_tokens = 0

\* C33: message_start carries zero for input_tokens, output_tokens,
\* cache_creation_input_tokens and cache_read_input_tokens; the final
\* message_delta never has both cache fields nonzero; and
\* cache_creation.ephemeral_5m_input_tokens, when present, equals
\* cache_creation_input_tokens and is sent only by a lookup that found no
\* fresh entry, a create turn.
C33_UsageShape ==
    /\ [](\A r \in Calls :
             /\ call[r].pc # "new" => ZeroUsage(call[r].start)
             /\ call[r].pc = "done" =>
                   /\ ~(/\ call[r].final.cache_creation_input_tokens # 0
                        /\ call[r].final.cache_read_input_tokens # 0)
                   /\ call[r].final.ephemeral_5m_input_tokens # -1 =>
                         call[r].final.ephemeral_5m_input_tokens =
                            call[r].final.cache_creation_input_tokens)
    /\ [][\A r \in Calls :
             (/\ call[r].pc = "open"
              /\ call'[r].pc = "done"
              /\ call'[r].final.ephemeral_5m_input_tokens # -1)
                => ~FreshEntry(call[r].key)]_vars

\* Two requests have sent both events: one a create turn with the
\* cache_creation object, the other a read turn without it.
C33_Witness ==
    \E r, q \in Calls :
        /\ call[r].pc = "done" /\ call[q].pc = "done"
        /\ call[r].final.cache_creation_input_tokens > 0
        /\ call[r].final.ephemeral_5m_input_tokens > 0
        /\ call[r].final.output_tokens > 0
        /\ call[q].final.cache_read_input_tokens > 0
        /\ call[q].final.ephemeral_5m_input_tokens = -1


CreateTurn(u) ==
    u.cache_creation_input_tokens > 0 /\ u.cache_read_input_tokens = 0

ReadTurn(u) ==
    u.cache_read_input_tokens > 0 /\ u.cache_creation_input_tokens = 0

\* r and q are the two requests that have looked up their common key, the
\* second lookup being the operation that led to this state.
FirstTwoLookups(r, q) ==
    /\ r # q
    /\ call[r].pc = "done" /\ call[q].pc = "done"
    /\ call[r].key = call[q].key
    /\ call[r].nth < call[q].nth
    /\ \A p \in Calls \ {r, q} :
          ~(call[p].pc = "done" /\ call[p].key = call[r].key)
    /\ lastOp = "request"
    /\ lastReq.key = call[r].key

OneCreateOneRead(r, q) ==
    /\ CreateTurn(call[r].final)
    /\ ReadTurn(call[q].final)
    /\ conversationState[call[r].key].present
    /\ conversationState[call[r].key].messageCount = 2

\* C34: of two concurrent requests with the same, previously absent
\* conversation key, under any interleaving with each other and with the
\* sweep, exactly one gets the create split and the other the read split,
\* and the entry's turn count ends at 2.
C34_LookupAtomic ==
    \A r, q \in Calls : FirstTwoLookups(r, q) => OneCreateOneRead(r, q)

\* The same for two requests with the same cacheable content whose lookups
\* are at most CACHE_TTL apart.
C34_LookupAtomicAmended ==
    \A r, q \in Calls :
        (/\ FirstTwoLookups(r, q)
         /\ call[r].tokens = call[q].tokens
         /\ call[q].at - call[r].at <= CACHE_TTL)
           => OneCreateOneRead(r, q)

\* Both requests were open together, and the second looked its key up
\* exactly CACHE_TTL after the first.
C34_Witness ==
    \E r, q \in Calls :
        /\ FirstTwoLookups(r, q)
        /\ call[r].tokens = call[q].tokens
        /\ call[q].at - call[r].at = CACHE_TTL
        /\ OneCreateOneRead(r, q)


----------------------------------------------------------------------------
(* Claims about the custom base URL (SpecRegistry) *)

\* The characters of an apiPath of the registry.
PathChars(apiPath) ==
    IF apiPath = "/chat/completions" THEN chatCompletions
    ELSE <<"/", "v", "1">> \o chatCompletions

\* `${baseUrl}${apiPath}` of handle.
UpstreamUrl(p) == p.baseUrl \o PathChars(p.apiPath)

\* C35: for every configured CLAUDISH_BASE_URL the custom provider's base
\* URL ends neither with "/" nor with "/chat/completions", normalising it
\* again changes nothing, the model name is the model id, and base URL +
\* apiPath ends with exactly one "/chat/completions".
C35_BaseUrlNormalised ==
    (route.done /\ route.handler.kind = "custom") =>
        LET p == route.handler.provider
        IN  /\ ~endsWith(p.baseUrl, <<"/">>)
            /\ ~endsWith(p.baseUrl, chatCompletions)
            /\ createCustomBaseUrlProvider(
                   modelId, [set |-> TRUE, value |-> p.baseUrl]).provider.baseUrl
                  = p.baseUrl
            /\ route.handler.modelName = modelId
            /\ endsWith(UpstreamUrl(p), chatCompletions)
            /\ ~endsWith(UpstreamUrl(p), chatCompletions \o chatCompletions)


----------------------------------------------------------------------------
(* Claims about later requests, failures and the order of steps
   (SpecHandler) *)

\* C36: once the health check of a handler has failed, every request, the
\* first and each later one, is answered with connection_error and no
\* chat-completions request is sent for it.
C36_UnhealthyGatesAll ==
    (healthChecked /\ ~isHealthy) =>
        /\ hpc # "awaiting"
        /\ lastHandle.sent = <<>>
        /\ nhandled > 0 => ConnectionError(lastHandle.reply)


----------------------------------------------------------------------------
(* Claims about first requests racing and failed writes (SpecSession) *)

\* C37: whatever the interleaving of the requests arriving at a fresh
\* handler, the health probes are issued by at most one request and so is
\* the /api/show probe, and once healthChecked is true isHealthy and
\* contextWindow do not change.
C37_ProbedOnce ==
    /\ [](/\ Cardinality({t \in Tasks : task[t].probed}) <= 1
          /\ Cardinality({t \in Tasks : task[t].showed}) <= 1)
    /\ [][healthChecked =>
             (isHealthy' = isHealthy /\ contextWindow' = contextWindow)]_vars

\* The health probes are issued by at most one request.
C37_OneHealthProbe == Cardinality({t \in Tasks : task[t].probed}) <= 1

\* Once healthChecked is true isHealthy does not change.
C37_VerdictStable == [][healthChecked => isHealthy' = isHealthy]_vars


\* C38: every outcome of handle is a response derived from a 2xx backend
\* reply or a JSON body {error: {type, message}}: no failure of the upstream
\* fetch escapes handle as an exception, and connection refused is answered
\* with connection_error.
C38_NoExceptionEscapes ==
    (hpc = "idle" /\ nhandled > 0) =>
        /\ \/ lastHandle.reply.kind \in {"stream", "passthrough"}
              /\ lastHandle.chat.kind = "ok"
           \/ lastHandle.reply.kind = "json"
              /\ lastHandle.reply.type # ""
              /\ lastHandle.reply.message # NoMessage
        /\ lastHandle.chat.kind = "refused" => ConnectionError(lastHandle.reply)


\* C39: a failed write of the status file neither fails nor alters the
\* request being served; the session totals are added up before the write,
\* so they grow by every report, never decrease, and the next write that
\* succeeds reports totals that include the reports whose write failed.
C39_FailedWriteHarmless ==
    /\ [](/\ sessionInputTokens = SumOf(reports, 1)
          /\ sessionOutputTokens = SumOf(reports, 2)
          /\ lastStep.kind = "usage" =>
                /\ tokenFile.input_tokens = SumOf(reports, 1)
                /\ tokenFile.output_tokens = SumOf(reports, 2))
    /\ [][/\ sessionInputTokens' >= sessionInputTokens
          /\ sessionOutputTokens' >= sessionOutputTokens
          /\ lastStep'.kind = "usage_lost" =>
                (task' = task /\ tokenFile' = tokenFile)]_vars

\* The write of a first, nonzero report failed, the request went on
\* streaming, and the second report has been written with both included.
C39_Witness ==
    /\ lastStep.kind = "usage"
    /\ Len(reports) = 2
    /\ ~reports[1][3]
    /\ reports[1][1] > 0
    /\ reports[2][2] > 0
    /\ tokenFile.total_tokens = reports[1][1] + reports[1][2] + reports[2][1] + reports[2][2]
    /\ task[lastStep.task].pc = "streaming"


\* C40: a request that passes the health gate goes through adapter reset,
\* adapter prepareRequest on the built payload, middleware beforeRequest and
\* then the upstream POST, in that order; X-Dropped-Params is set only when
\* the backend replied 2xx and a parameter was dropped, never on an error
\* response.
C40_StepsInOrder ==
    /\ hpc = "awaiting" =>
          /\ lastHandle.steps =
                <<"adapter.reset", "adapter.prepareRequest",
                  "middleware.beforeRequest", "fetch">>
          /\ Len(lastHandle.sent) = 1
          /\ lastHandle.sent[1].method = "POST"
          /\ lastHandle.prepared = <<lastHandle.sent[1].body>>
    /\ lastHandle.sent = <<>> <=> lastHandle.steps = <<>>
    /\ lastHandle.header # <<>> =>
          /\ lastHandle.chat.kind = "ok"
          /\ lastHandle.dropped # <<>>
          /\ lastHandle.header = lastHandle.dropped
    /\ lastHandle.reply.kind = "json" => lastHandle.header = <<>>

\* A request with a dropped parameter got a 2xx reply and the header; it was
\* not the first request of the handler.
C40_Witness ==
    /\ hpc = "idle"
    /\ nhandled = 2
    /\ lastHandle.reply.kind = "stream"
    /\ lastHandle.header = <<"p">>

====
